---- MODULE Spec2Model ----
(***************************************************************************)
(* A model of the tinympt Merkle-Patricia trie: the node algebra of        *)
(* src/src/trie/node (insert, get_value, get_proof, collapse), the bincode *)
(* node encoding, the content-addressed store, the Trie facade of          *)
(* src/src/trie/mod.rs and verify_proof.                                   *)
(*                                                                         *)
(* Conventions.                                                            *)
(*   Result<T>   Ok(x) = [ok |-> TRUE, val |-> x], Err(e) = [ok |-> FALSE, *)
(*               err |-> e]                                                *)
(*   Option<T>   None = << >>, Some(x) = <<x>>                             *)
(*   Vec<u8>     a sequence of naturals                                    *)
(*   HashValue   [blake2b |-> data]: Blake2b is taken to be collision      *)
(*               free, so a digest is represented by the byte string it    *)
(*               was computed from; a digest is one element of a byte      *)
(*               string that embeds it.                                    *)
(*   bincode     a byte string is a flat sequence; every fixed-width       *)
(*               integer field (variant index, length, option tag) is one  *)
(*               element of it.                                            *)
(***************************************************************************)
EXTENDS Integers, Sequences, FiniteSets, TLC

Ok(x) == [ok |-> TRUE, val |-> x]
Err(e) == [ok |-> FALSE, err |-> e]
None == << >>
Some(x) == <<x>>

(***************************************************************************)
(* Program constants.                                                      *)
(***************************************************************************)
\* a byte holds two nibbles: byte >> 4 and byte & 0x0f
NibbleBase == 16
\* children: [TrieNodeLink; 16]
BranchWidth == 16

(***************************************************************************)
(* Bounds of the model.                                                    *)
(***************************************************************************)
\* successful or failed insert calls in one run
MaxInserts == 3
\* commit calls in one run (those made by get_proof included)
MaxCommits == 2
\* revert calls in one run
MaxReverts == 1
\* a failing store fails at its first, second, ... write, up to this one
MaxFailAt == 1

\* The keys of the model, as byte strings. Their nibble paths are
\*   << >>      the empty key
\*   <<0>>      0,0        a proper prefix of the next two
\*   <<0,0>>    0,0,0,0
\*   <<0,1>>    0,0,0,1    differs from <<0,0>> in the last nibble only
\*   <<1>>      0,1        shares one nibble with the keys above
Keys == {<< >>, <<0>>, <<0, 0>>, <<0, 1>>, <<1>>}
\* the values (strings of one byte)
Values == {<<1>>, <<2>>}

(***************************************************************************)
(* src/src/trie/util.rs                                                    *)
(***************************************************************************)
convert_bytes_to_nibbles(bytes) ==
    [i \in 1..(2 * Len(bytes)) |->
        IF i % 2 = 1 THEN bytes[(i + 1) \div 2] \div NibbleBase
                     ELSE bytes[i \div 2] % NibbleBase]

SetMin(S) == CHOOSE x \in S : \A y \in S : x <= y

\* mutant: the split is at the shorter length, whether or not the slices agree
parse_nibble_slices_at_min(n1, n2) ==
    LET min == IF Len(n1) <= Len(n2) THEN Len(n1) ELSE Len(n2)
    IN [shared |-> SubSeq(n1, 1, min),
        r1 |-> SubSeq(n1, min + 1, Len(n1)),
        r2 |-> SubSeq(n2, min + 1, Len(n2))]

\* (shared, rest of n1, rest of n2)
parse_nibble_slices_shared_portion(n1, n2) ==
    LET min == IF Len(n1) <= Len(n2) THEN Len(n1) ELSE Len(n2)
        differ == {i \in 1..min : n1[i] # n2[i]}
        i == IF differ = {} THEN min ELSE SetMin(differ) - 1
    IN [shared |-> SubSeq(n1, 1, i),
        r1 |-> SubSeq(n1, i + 1, Len(n1)),
        r2 |-> SubSeq(n2, i + 1, Len(n2))]

hash(data) == [blake2b |-> data]

(***************************************************************************)
(* Nodes and links (src/src/trie/node).                                    *)
(***************************************************************************)
EmptyLink == [link |-> "Empty"]
HashLink(h) == [link |-> "HashValue", hash |-> h]
NodeLink(n) == [link |-> "TrieNode", node |-> n]

Node(rest_of_key, value) ==
    [tag |-> "Node", rest_of_key |-> rest_of_key, value |-> value]
Extension(partial_key, branch) ==
    [tag |-> "Extension", partial_key |-> partial_key, branch |-> branch]
Branch(children, value) ==
    [tag |-> "Branch", children |-> children, value |-> value]
Branch_new == Branch([i \in 0..(BranchWidth - 1) |-> EmptyLink], None)

(***************************************************************************)
(* The bincode encoding the derives of TrieNode, TrieNodeLink, Node,       *)
(* Extension and Branch produce: the variant index in declaration order,   *)
(* then the fields in declaration order; a Vec is its length and its       *)
(* elements, an array its elements, an Option a tag and the payload.       *)
(***************************************************************************)
SerVec(v) == <<Len(v)>> \o v
SerOption(o) == IF o = None THEN <<0>> ELSE <<1>> \o SerVec(o[1])

RECURSIVE SerNode(_), SerLink(_), SerChildren(_, _)
SerLink(l) ==
    CASE l.link = "TrieNode" -> <<0>> \o SerNode(l.node)
      [] l.link = "HashValue" -> <<1, l.hash>>
      [] l.link = "Empty" -> <<2>>

SerChildren(children, i) ==
    IF i = BranchWidth THEN << >>
    ELSE SerLink(children[i]) \o SerChildren(children, i + 1)

SerNode(n) ==
    CASE n.tag = "Extension" -> <<0>> \o SerVec(n.partial_key) \o SerLink(n.branch)
      [] n.tag = "Node" -> <<1>> \o SerVec(n.rest_of_key) \o SerVec(n.value)
      [] n.tag = "Branch" -> <<2>> \o SerChildren(n.children, 0) \o SerOption(n.value)

\* bincode::serialize(&trie_node)
Serialize(n) == SerNode(n)

\* The decoder: each step reads at position i and gives the position after
\* what it read; reading past the end or an unknown tag is a decode error.
Fail == [ok |-> FALSE]
Read(x, next) == [ok |-> TRUE, val |-> x, next |-> next]

\* the ? operator: an error is returned as it is, a success is handed on
Try(r, F(_)) == IF r.ok THEN F(r) ELSE r

\* Option::ok_or
ok_or(o, e) == IF o = None THEN Err(e) ELSE Ok(o[1])

\* the bincode error of a failed decode (From<bincode::Error> for TrieError)
Decoded(r) == IF r.ok THEN Ok(r.val) ELSE Err("Bincode")

DeVec(s, i) ==
    IF i > Len(s) THEN Fail
    ELSE IF i + s[i] > Len(s) THEN Fail
    ELSE Read(SubSeq(s, i + 1, i + s[i]), i + s[i] + 1)

DeOption(s, i) ==
    IF i > Len(s) THEN Fail
    ELSE IF s[i] = 0 THEN Read(None, i + 1)
    ELSE IF s[i] = 1
         THEN Try(DeVec(s, i + 1), LAMBDA v : Read(Some(v.val), v.next))
    ELSE Fail

RECURSIVE DeNode(_, _), DeLink(_, _), DeChildren(_, _, _, _)
DeLink(s, i) ==
    IF i > Len(s) THEN Fail
    ELSE IF s[i] = 0
         THEN Try(DeNode(s, i + 1), LAMBDA n : Read(NodeLink(n.val), n.next))
    ELSE IF s[i] = 1
         THEN IF i + 1 > Len(s) THEN Fail ELSE Read(HashLink(s[i + 1]), i + 2)
    ELSE IF s[i] = 2 THEN Read(EmptyLink, i + 1)
    ELSE Fail

DeChildren(s, i, idx, acc) ==
    IF idx = BranchWidth THEN Read(acc, i)
    ELSE Try(DeLink(s, i),
             LAMBDA l : DeChildren(s, l.next, idx + 1, [acc EXCEPT ![idx] = l.val]))

DeNode(s, i) ==
    IF i > Len(s) THEN Fail
    ELSE IF s[i] = 0
         THEN Try(DeVec(s, i + 1), LAMBDA p :
              Try(DeLink(s, p.next), LAMBDA b :
                  Read(Extension(p.val, b.val), b.next)))
    ELSE IF s[i] = 1
         THEN Try(DeVec(s, i + 1), LAMBDA k :
              Try(DeVec(s, k.next), LAMBDA v :
                  Read(Node(k.val, v.val), v.next)))
    ELSE IF s[i] = 2
         THEN Try(DeChildren(s, i + 1, 0, Branch_new.children), LAMBDA c :
              Try(DeOption(s, c.next), LAMBDA v :
                  Read(Branch(c.val, v.val), v.next)))
    ELSE Fail

\* bincode::deserialize::<TrieNode>(&bin_node); bytes after the node are ignored
Deserialize(bytes) == Decoded(DeNode(bytes, 1))

\* bincode::serialize(&value) and bincode::deserialize of a String value
SerializeValue(v) == SerVec(v)
DeserializeValue(bytes) == Decoded(DeVec(bytes, 1))

(***************************************************************************)
(* The store (src/src/database): a map from digests to byte strings.       *)
(* MemoryDatabase never fails; RocksdbDatabase::insert returns the error   *)
(* of DB::put. fuel is the number of writes the store still accepts:       *)
(* NoFault for a store that accepts every write.                           *)
(***************************************************************************)
NoFault == -1
EmptyDb == [h \in {} |-> << >>]
Database_get(db, key) == IF key \in DOMAIN db THEN Some(db[key]) ELSE None
\* mutant: the write replaces the map
Database_insert_clobber(db, key, value) == [h \in {key} |-> value]
Database_insert(db, key, value) ==
    [h \in DOMAIN db \cup {key} |-> IF h = key THEN value ELSE db[h]]
Database_exists(db, key) == key \in DOMAIN db

(***************************************************************************)
(* INSERT (TrieNodeLink::insert, TrieNode::insert, Node::insert,           *)
(* Extension::insert, Branch::insert). The store is only read.             *)
(***************************************************************************)
RECURSIVE TrieNodeLink_insert(_, _, _, _), TrieNode_insert(_, _, _, _)
RECURSIVE Node_insert(_, _, _, _), Extension_insert(_, _, _, _), Branch_insert(_, _, _, _)

\* mutant: a key that ends at the branch leaves the branch as it is
Branch_insert_dropvalue(self, store, key_nb, value) ==
    IF Len(key_nb) = 0
    THEN Ok(self)
    ELSE Try(TrieNodeLink_insert(self.children[key_nb[1]], store, Tail(key_nb), value),
             LAMBDA child :
                 Ok(Branch([self.children EXCEPT ![key_nb[1]] = child.val], self.value)))

\* src/src/trie/node/branch.rs: Branch::insert
Branch_insert(self, store, key_nb, value) ==
    IF Len(key_nb) = 0
    THEN Ok(Branch(self.children, Some(value)))
    ELSE Try(TrieNodeLink_insert(self.children[key_nb[1]], store, Tail(key_nb), value),
             LAMBDA child :
                 Ok(Branch([self.children EXCEPT ![key_nb[1]] = child.val], self.value)))

\* mutant: the 1 => arm wraps its branch in an extension over the shared part
Extension_insert_one_wrapped(shared, rest_of_partial_key, rest_of_key_nb, old_branch, store, value) ==
    Try(Branch_insert(Branch([Branch_new.children EXCEPT ![rest_of_partial_key[1]] = old_branch], None),
                      store, rest_of_key_nb, value),
        LAMBDA branch : Ok(Extension(shared, NodeLink(branch.val))))

\* the 1 => arm of Extension::insert
Extension_insert_one(shared, rest_of_partial_key, rest_of_key_nb, old_branch, store, value) ==
    Branch_insert(Branch([Branch_new.children EXCEPT ![rest_of_partial_key[1]] = old_branch], None),
                  store, rest_of_key_nb, value)

\* src/src/trie/node/extension.rs: Extension::insert
Extension_insert(self, store, key_nb, value) ==
    LET p == parse_nibble_slices_shared_portion(self.partial_key, key_nb)
        shared == p.shared
        rest_of_partial_key == p.r1
        rest_of_key_nb == p.r2
        old_branch == self.branch
    IN CASE Len(rest_of_partial_key) = 0 ->
              Try(TrieNodeLink_insert(old_branch, store, rest_of_key_nb, value),
                  LAMBDA b : Ok(Extension(shared, b.val)))
         [] Len(rest_of_partial_key) = 1 ->
              Extension_insert_one(shared, rest_of_partial_key, rest_of_key_nb,
                                   old_branch, store, value)
         [] OTHER ->
              LET idx == rest_of_partial_key[1]
                  extension == Extension(Tail(rest_of_partial_key), old_branch)
              IN Try(Branch_insert(
                         Branch([Branch_new.children EXCEPT ![idx] = NodeLink(extension)], None),
                         store, rest_of_key_nb, value),
                     LAMBDA branch :
                         IF Len(shared) = 0 THEN branch
                         ELSE Ok(Extension(shared, NodeLink(branch.val))))

\* mutant: the new branch is never wrapped in an extension
Node_insert_bare(self, store, key_nb, value) ==
    IF self.rest_of_key = key_nb
    THEN Ok(Node(self.rest_of_key, value))
    ELSE LET p == parse_nibble_slices_shared_portion(self.rest_of_key, key_nb)
         IN Try(Branch_insert(Branch_new, store, p.r1, self.value), LAMBDA b1 :
                TrieNode_insert(b1.val, store, p.r2, value))

\* mutant: the leaf's own key is split like any other
Node_insert_split(self, store, key_nb, value) ==
    LET p == parse_nibble_slices_shared_portion(self.rest_of_key, key_nb)
    IN Try(Branch_insert(Branch_new, store, p.r1, self.value), LAMBDA b1 :
       Try(TrieNode_insert(b1.val, store, p.r2, value), LAMBDA b2 :
           IF Len(p.shared) = 0 THEN b2
           ELSE Ok(Extension(p.shared, NodeLink(b2.val)))))

\* src/src/trie/node/node.rs: Node::insert
Node_insert(self, store, key_nb, value) ==
    IF self.rest_of_key = key_nb
    THEN Ok(Node(self.rest_of_key, value))
    ELSE LET p == parse_nibble_slices_shared_portion(self.rest_of_key, key_nb)
         IN Try(Branch_insert(Branch_new, store, p.r1, self.value), LAMBDA b1 :
            Try(TrieNode_insert(b1.val, store, p.r2, value), LAMBDA b2 :
                IF Len(p.shared) = 0 THEN b2
                ELSE Ok(Extension(p.shared, NodeLink(b2.val)))))

\* src/src/trie/node/mod.rs: TrieNode::insert
TrieNode_insert(self, store, key_nb, value) ==
    CASE self.tag = "Node" -> Node_insert(self, store, key_nb, value)
      [] self.tag = "Extension" -> Extension_insert(self, store, key_nb, value)
      [] self.tag = "Branch" -> Branch_insert(self, store, key_nb, value)

\* mutant: an insert through a digest link does not read the stored node
TrieNodeLink_insert_unread(self, store, key_nb, value) ==
    CASE self.link = "TrieNode" ->
              Try(TrieNode_insert(self.node, store, key_nb, value),
                  LAMBDA n : Ok(NodeLink(n.val)))
      [] self.link = "HashValue" -> Ok(NodeLink(Node(key_nb, value)))
      [] self.link = "Empty" -> Ok(NodeLink(Node(key_nb, value)))

\* src/src/trie/node/mod.rs: TrieNodeLink::insert
TrieNodeLink_insert(self, store, key_nb, value) ==
    CASE self.link = "TrieNode" ->
              Try(TrieNode_insert(self.node, store, key_nb, value),
                  LAMBDA n : Ok(NodeLink(n.val)))
      [] self.link = "HashValue" ->
              Try(ok_or(Database_get(store, self.hash), "Database"), LAMBDA bin_node :
              Try(Deserialize(bin_node.val), LAMBDA trie_node :
              Try(TrieNode_insert(trie_node.val, store, key_nb, value), LAMBDA n :
                  Ok(NodeLink(n.val)))))
      [] self.link = "Empty" -> Ok(NodeLink(Node(key_nb, value)))

(***************************************************************************)
(* LOOKUP (get_value of TrieNodeLink, TrieNode, Node, Extension, Branch).  *)
(***************************************************************************)
RECURSIVE TrieNodeLink_get_value(_, _, _), TrieNode_get_value(_, _, _)

\* src/src/trie/node/node.rs: Node::get_value
Node_get_value(self, key_nb) ==
    IF self.rest_of_key = key_nb THEN Ok(Some(self.value)) ELSE Ok(None)

\* src/src/trie/node/extension.rs: Extension::get_value
Extension_get_value(self, store, key_nb) ==
    LET p == parse_nibble_slices_shared_portion(self.partial_key, key_nb)
    IN IF Len(p.shared) = Len(self.partial_key)
       THEN TrieNodeLink_get_value(self.branch, store, p.r2)
       ELSE Ok(None)

\* src/src/trie/node/branch.rs: Branch::get_value
Branch_get_value(self, store, key_nb) ==
    IF Len(key_nb) = 0 THEN Ok(self.value)
    ELSE TrieNodeLink_get_value(self.children[key_nb[1]], store, Tail(key_nb))

TrieNode_get_value(self, store, key_nb) ==
    CASE self.tag = "Node" -> Node_get_value(self, key_nb)
      [] self.tag = "Extension" -> Extension_get_value(self, store, key_nb)
      [] self.tag = "Branch" -> Branch_get_value(self, store, key_nb)

TrieNodeLink_get_value(self, store, key_nb) ==
    CASE self.link = "TrieNode" -> TrieNode_get_value(self.node, store, key_nb)
      [] self.link = "HashValue" ->
              Try(ok_or(Database_get(store, self.hash), "Database"), LAMBDA bin_node :
              Try(Deserialize(bin_node.val), LAMBDA trie_node :
                  TrieNode_get_value(trie_node.val, store, key_nb)))
      [] self.link = "Empty" -> Ok(None)

(***************************************************************************)
(* PROOF generation (get_proof of TrieNodeLink, TrieNode, Extension,       *)
(* Branch). The result carries the proof store as written so far.          *)
(***************************************************************************)
Found(exists, proof_db) == [ok |-> TRUE, val |-> exists, proof_db |-> proof_db]

RECURSIVE TrieNodeLink_get_proof(_, _, _, _), TrieNode_get_proof(_, _, _, _)

\* mutant: the child is visited before the partial key is compared
Extension_get_proof_descend(self, store, proof_db, key_nb) ==
    LET p == parse_nibble_slices_shared_portion(self.partial_key, key_nb)
    IN Try(TrieNodeLink_get_proof(self.branch, store, proof_db, p.r2),
           LAMBDA b : IF p.shared # self.partial_key THEN Found(FALSE, b.proof_db) ELSE b)

\* src/src/trie/node/extension.rs: Extension::get_proof
Extension_get_proof(self, store, proof_db, key_nb) ==
    LET p == parse_nibble_slices_shared_portion(self.partial_key, key_nb)
    IN IF p.shared # self.partial_key
       THEN Found(FALSE, proof_db)
       ELSE TrieNodeLink_get_proof(self.branch, store, proof_db, p.r2)

\* mutant: a branch the key ends at counts as holding a value
Branch_get_proof_anyvalue(self, store, proof_db, key_nb) ==
    IF Len(key_nb) = 0 THEN Found(TRUE, proof_db)
    ELSE TrieNodeLink_get_proof(self.children[key_nb[1]], store, proof_db, Tail(key_nb))

\* src/src/trie/node/branch.rs: Branch::get_proof
Branch_get_proof(self, store, proof_db, key_nb) ==
    IF Len(key_nb) = 0 THEN Found(self.value # None, proof_db)
    ELSE TrieNodeLink_get_proof(self.children[key_nb[1]], store, proof_db, Tail(key_nb))

TrieNode_get_proof(self, store, proof_db, key_nb) ==
    CASE self.tag = "Node" -> Found(self.rest_of_key = key_nb, proof_db)
      [] self.tag = "Extension" -> Extension_get_proof(self, store, proof_db, key_nb)
      [] self.tag = "Branch" -> Branch_get_proof(self, store, proof_db, key_nb)

\* mutant: the node read is not copied into the proof store
TrieNodeLink_get_proof_hash_nocopy(self, store, proof_db, key_nb) ==
    Try(ok_or(Database_get(store, self.hash), "Database"), LAMBDA bin_node :
    Try(Deserialize(bin_node.val), LAMBDA trie_node :
        TrieNode_get_proof(trie_node.val, store, proof_db, key_nb)))

\* the HashValue arm of TrieNodeLink::get_proof
TrieNodeLink_get_proof_hash(self, store, proof_db, key_nb) ==
    Try(ok_or(Database_get(store, self.hash), "Database"), LAMBDA bin_node :
    Try(Deserialize(bin_node.val), LAMBDA trie_node :
        TrieNode_get_proof(trie_node.val, store,
                           Database_insert(proof_db, self.hash, bin_node.val),
                           key_nb)))

TrieNodeLink_get_proof(self, store, proof_db, key_nb) ==
    CASE self.link = "TrieNode" -> TrieNode_get_proof(self.node, store, proof_db, key_nb)
      [] self.link = "HashValue" -> TrieNodeLink_get_proof_hash(self, store, proof_db, key_nb)
      [] self.link = "Empty" -> Found(FALSE, proof_db)

(***************************************************************************)
(* COMMIT (TrieNodeLink::collapse, TrieNode::collapse). A result carries   *)
(* the store as written so far, also when a write failed, and the writes   *)
(* the store still accepts.                                                *)
(***************************************************************************)
Collapsed(link, store, fuel) == [ok |-> TRUE, val |-> link, db |-> store, fuel |-> fuel]
CollapseErr(e, store) == [ok |-> FALSE, err |-> e, db |-> store]

RECURSIVE TrieNodeLink_collapse(_, _, _), TrieNode_collapse(_, _, _), collapse_children(_, _, _, _, _)

\* mutant: the bytes stored are not the bytes hashed
TrieNode_store_padded(trie_node, store, fuel) ==
    LET bin_node == Serialize(trie_node)
        hash_value == hash(bin_node)
    IN IF fuel = 0 THEN CollapseErr("Rocksdb", store)
       ELSE Collapsed(HashLink(hash_value),
                      Database_insert(store, hash_value, bin_node \o <<0>>),
                      IF fuel = NoFault THEN NoFault ELSE fuel - 1)

\* serialize, hash and store the node whose children are collapsed already
TrieNode_store(trie_node, store, fuel) ==
    LET bin_node == Serialize(trie_node)
        hash_value == hash(bin_node)
    IN IF fuel = 0 THEN CollapseErr("Rocksdb", store)
       ELSE Collapsed(HashLink(hash_value),
                      Database_insert(store, hash_value, bin_node),
                      IF fuel = NoFault THEN NoFault ELSE fuel - 1)

\* the loop over old_children in the Branch arm of TrieNode::collapse
collapse_children(old_children, idx, children, store, fuel) ==
    IF idx = BranchWidth THEN Collapsed(children, store, fuel)
    ELSE Try(TrieNodeLink_collapse(old_children[idx], store, fuel),
             LAMBDA c : collapse_children(old_children, idx + 1,
                                          [children EXCEPT ![idx] = c.val], c.db, c.fuel))

\* mutant: the child of an extension is stored inline
TrieNode_collapse_shallow(self, store, fuel) ==
    CASE self.tag = "Node" -> TrieNode_store(self, store, fuel)
      [] self.tag = "Extension" -> TrieNode_store(self, store, fuel)
      [] self.tag = "Branch" ->
              Try(collapse_children(self.children, 0, Branch_new.children, store, fuel),
                  LAMBDA c : TrieNode_store(Branch(c.val, self.value), c.db, c.fuel))

\* src/src/trie/node/mod.rs: TrieNode::collapse
TrieNode_collapse(self, store, fuel) ==
    CASE self.tag = "Node" -> TrieNode_store(self, store, fuel)
      [] self.tag = "Extension" ->
              Try(TrieNodeLink_collapse(self.branch, store, fuel),
                  LAMBDA b : TrieNode_store(Extension(self.partial_key, b.val), b.db, b.fuel))
      [] self.tag = "Branch" ->
              Try(collapse_children(self.children, 0, Branch_new.children, store, fuel),
                  LAMBDA c : TrieNode_store(Branch(c.val, self.value), c.db, c.fuel))

\* mutant: a digest link is written to the store again
TrieNodeLink_collapse_rewrite(self, store, fuel) ==
    CASE self.link = "TrieNode" -> TrieNode_collapse(self.node, store, fuel)
      [] self.link = "Empty" -> Collapsed(self, store, fuel)
      [] self.link = "HashValue" ->
              IF fuel = 0 THEN CollapseErr("Rocksdb", store)
              ELSE Collapsed(self, store, IF fuel = NoFault THEN NoFault ELSE fuel - 1)

\* src/src/trie/node/mod.rs: TrieNodeLink::collapse
TrieNodeLink_collapse(self, store, fuel) ==
    IF self.link = "TrieNode" THEN TrieNode_collapse(self.node, store, fuel)
    ELSE Collapsed(self, store, fuel)

(***************************************************************************)
(* The Trie facade (src/src/trie/mod.rs) over the fields of MemoryTrie and *)
(* RocksdbTrie. t is [root_node, db, dirty]; an operation gives the trie   *)
(* after the call and what the call returned.                              *)
(***************************************************************************)
Trie(root, store, d) == [root_node |-> root, db |-> store, dirty |-> d]
Returned(t, ret) == [t |-> t, ret |-> ret]

\* MemoryTrie::new
Trie_new == Trie(EmptyLink, EmptyDb, FALSE)

\* std::mem::take(&mut self.root_node): the default link is left behind
take_root_node(t) == [t EXCEPT !.root_node = EmptyLink]

\* mutant: insert writes the new root through to the store
Trie_insert_eager(t, key, value) ==
    LET key_nb == convert_bytes_to_nibbles(key)
        taken == take_root_node(t)
        bin_node == SerializeValue(value)
        r == TrieNodeLink_insert(t.root_node, taken.db, key_nb, bin_node)
        c == TrieNodeLink_collapse(r.val, taken.db, NoFault)
    IN IF r.ok
       THEN Returned(Trie(c.val, c.db, TRUE), Ok("unit"))
       ELSE Returned(taken, r)

\* mutant: insert leaves the dirty flag as it is
Trie_insert_keepdirty(t, key, value) ==
    LET key_nb == convert_bytes_to_nibbles(key)
        taken == take_root_node(t)
        bin_node == SerializeValue(value)
        r == TrieNodeLink_insert(t.root_node, taken.db, key_nb, bin_node)
    IN IF r.ok
       THEN Returned(Trie(r.val, taken.db, t.dirty), Ok("unit"))
       ELSE Returned(taken, r)

\* Trie::insert
Trie_insert(t, key, value) ==
    LET key_nb == convert_bytes_to_nibbles(key)
        taken == take_root_node(t)
        bin_node == SerializeValue(value)
        r == TrieNodeLink_insert(t.root_node, taken.db, key_nb, bin_node)
    IN IF r.ok
       THEN Returned(Trie(r.val, taken.db, TRUE), Ok("unit"))
       ELSE Returned(taken, r)

\* Trie::get_value; the unwrap of a value that does not decode is a panic
Trie_get_value(t, key) ==
    LET key_nb == convert_bytes_to_nibbles(key)
    IN Try(TrieNodeLink_get_value(t.root_node, t.db, key_nb), LAMBDA r :
           IF r.val = None THEN Ok(None)
           ELSE LET v == DeserializeValue(r.val[1])
                IN IF v.ok THEN Ok(Some(v.val)) ELSE Err("panic"))

\* mutant: the commit of an empty trie returns a digest
Trie_commit_zero_root(t, fuel) ==
    LET taken == take_root_node(t)
        c == TrieNodeLink_collapse(t.root_node, taken.db, fuel)
    IN IF ~c.ok
       THEN Returned([taken EXCEPT !.db = c.db], Err(c.err))
       ELSE Returned(Trie(c.val, c.db, FALSE),
                     CASE c.val.link = "HashValue" -> Ok(Some(c.val.hash))
                       [] c.val.link = "Empty" -> Ok(Some(hash(<< >>)))
                       [] OTHER -> Err("unreachable"))

\* mutant: commit leaves an empty root
Trie_commit_drop(t, fuel) ==
    LET taken == take_root_node(t)
        c == TrieNodeLink_collapse(t.root_node, taken.db, fuel)
    IN IF ~c.ok
       THEN Returned([taken EXCEPT !.db = c.db], Err(c.err))
       ELSE Returned(Trie(EmptyLink, c.db, FALSE),
                     CASE c.val.link = "HashValue" -> Ok(Some(c.val.hash))
                       [] c.val.link = "Empty" -> Ok(None)
                       [] OTHER -> Err("unreachable"))

\* Trie::commit
Trie_commit(t, fuel) ==
    LET taken == take_root_node(t)
        c == TrieNodeLink_collapse(t.root_node, taken.db, fuel)
    IN IF ~c.ok
       THEN Returned([taken EXCEPT !.db = c.db], Err(c.err))
       ELSE Returned(Trie(c.val, c.db, FALSE),
                     CASE c.val.link = "HashValue" -> Ok(Some(c.val.hash))
                       [] c.val.link = "Empty" -> Ok(None)
                       [] OTHER -> Err("unreachable"))

\* mutant: revert looks the digest up and fails when the store does not hold it
Trie_revert_checked(t, root_hash) ==
    IF Database_exists(t.db, root_hash)
    THEN Returned(Trie(HashLink(root_hash), t.db, FALSE), Ok("unit"))
    ELSE Returned(t, Err("Database"))

\* mutant: the root is not reseated
Trie_revert_keep(t, root_hash) ==
    Returned(Trie(t.root_node, t.db, FALSE), Ok("unit"))

\* mutant: revert writes the nodes in memory to the store before it reseats
Trie_revert_flush(t, root_hash) ==
    Returned(Trie(HashLink(root_hash),
                  TrieNodeLink_collapse(t.root_node, t.db, NoFault).db, FALSE),
             Ok("unit"))

\* Trie::revert
Trie_revert(t, root_hash) ==
    Returned(Trie(HashLink(root_hash), t.db, FALSE), Ok("unit"))

\* mutant: a root the store does not hold is an error
Trie_get_proof_clean_strict(t, root_hash, key) ==
    Try(ok_or(Database_get(t.db, root_hash), "Database"), LAMBDA bin_node :
    Try(Deserialize(bin_node.val), LAMBDA trie_node :
    Try(TrieNode_get_proof(trie_node.val, t.db,
                           Database_insert(EmptyDb, root_hash, bin_node.val),
                           convert_bytes_to_nibbles(key)),
        LAMBDA e : Ok([exists |-> e.val, proof_db |-> e.proof_db]))))

\* Trie::get_proof, from the read of the root on
Trie_get_proof_clean(t, root_hash, key) ==
    LET proof_db == EmptyDb
        bin_node_opt == Database_get(t.db, root_hash)
        key_nb == convert_bytes_to_nibbles(key)
    IN IF bin_node_opt = None
       THEN Ok([exists |-> FALSE, proof_db |-> proof_db])
       ELSE Try(Deserialize(bin_node_opt[1]), LAMBDA trie_node :
            Try(TrieNode_get_proof(trie_node.val, t.db,
                                   Database_insert(proof_db, root_hash, bin_node_opt[1]),
                                   key_nb),
                LAMBDA e : Ok([exists |-> e.val, proof_db |-> e.proof_db])))

\* mutant: the nodes copied into the proof store are taken out of the store
Trie_get_proof_move(t, root_hash, key, fuel) ==
    LET c == IF t.dirty THEN Trie_commit(t, fuel) ELSE Returned(t, Ok(None))
        p == Trie_get_proof_clean(c.t, root_hash, key)
    IN IF ~c.ret.ok THEN c
       ELSE IF ~p.ok THEN Returned(c.t, p)
       ELSE Returned([c.t EXCEPT !.db = [h \in DOMAIN c.t.db \ DOMAIN p.val.proof_db |-> c.t.db[h]]], p)

\* Trie::get_proof
Trie_get_proof(t, root_hash, key, fuel) ==
    LET c == IF t.dirty THEN Trie_commit(t, fuel) ELSE Returned(t, Ok(None))
    IN IF ~c.ret.ok THEN c
       ELSE Returned(c.t, Trie_get_proof_clean(c.t, root_hash, key))

\* mutant: a root the proof store does not hold is an error
verify_proof_root_required(root_hash, proof_db, key) ==
    Try(ok_or(Database_get(proof_db, root_hash), "Database"), LAMBDA bin_node :
    Try(Deserialize(bin_node.val), LAMBDA trie_node :
    Try(TrieNode_get_value(trie_node.val, proof_db, convert_bytes_to_nibbles(key)),
        LAMBDA bin_value_opt :
            IF bin_value_opt.val = None THEN Ok(None)
            ELSE Try(DeserializeValue(bin_value_opt.val[1]), LAMBDA v : Ok(Some(v.val))))))

\* mutant: a node the proof store does not hold is an absent key
verify_proof_lenient(root_hash, proof_db, key) ==
    LET bin_node_opt == Database_get(proof_db, root_hash)
        key_nb == convert_bytes_to_nibbles(key)
        res == IF bin_node_opt = None THEN Ok(None)
               ELSE Try(Deserialize(bin_node_opt[1]), LAMBDA trie_node :
                    Try(TrieNode_get_value(trie_node.val, proof_db, key_nb),
                        LAMBDA bin_value_opt :
                            IF bin_value_opt.val = None THEN Ok(None)
                            ELSE Try(DeserializeValue(bin_value_opt.val[1]),
                                     LAMBDA v : Ok(Some(v.val)))))
    IN IF res = Err("Database") THEN Ok(None) ELSE res

\* verify_proof
verify_proof(root_hash, proof_db, key) ==
    LET bin_node_opt == Database_get(proof_db, root_hash)
        key_nb == convert_bytes_to_nibbles(key)
    IN IF bin_node_opt = None THEN Ok(None)
       ELSE Try(Deserialize(bin_node_opt[1]), LAMBDA trie_node :
            Try(TrieNode_get_value(trie_node.val, proof_db, key_nb), LAMBDA bin_value_opt :
                IF bin_value_opt.val = None THEN Ok(None)
                ELSE Try(DeserializeValue(bin_value_opt.val[1]),
                         LAMBDA v : Ok(Some(v.val)))))

(***************************************************************************)
(* The state machine: one trie and its caller.                             *)
(*   root_node, db, dirty   the fields of the trie                         *)
(*   last     the last call that took the trie by &mut self (insert,       *)
(*            commit, revert, get_proof), whether it returned Ok and, of   *)
(*            a revert, the digest it was given                            *)
(*   roots    history: the roots commit returned, in order, each with what *)
(*            get_value returned for every key right after that commit     *)
(*   kv       history: while the run is only successful inserts into the   *)
(*            new trie and then at most one commit (pure), the last value  *)
(*            inserted for every key                                       *)
(*   calls    history: the number of insert, commit and revert calls       *)
(* get_value and verify_proof change nothing; what they, and get_proof,    *)
(* return in a state is given by Trie_get_value, verify_proof and          *)
(* Trie_get_proof applied to it.                                           *)
(*                                                                         *)
(* The proof server of the examples (tcp_server, libp2p_node) owns a trie  *)
(* and serves it from one task:                                            *)
(*   req_receiver  the requests queued in the channel, each with the       *)
(*                 stream whose oneshot sender it carries                  *)
(*   streams       each connection task: whether it holds a req_sender,    *)
(*                 the request it sent and what became of it               *)
(*   main          main still holds the req_sender it clones from          *)
(*   process       where process_proof_request is                          *)
(*   log           the request the loop took last and what it did with it  *)
(* A trie used on its own has no server: these keep their initial values.  *)
(***************************************************************************)
VARIABLES root_node, db, dirty, last, roots, kv, calls,
          req_receiver, streams, main, process, log

server == <<req_receiver, streams, main, process, log>>

vars == <<root_node, db, dirty, last, roots, kv, calls, server>>

\* the connections a server takes
MaxStreams == 2
Streams == 1..MaxStreams

NoLog == [request |-> None, outcome |-> "none"]

NoServer ==
    /\ req_receiver = << >>
    /\ streams = [c \in Streams |-> [at |-> "closed"]]
    /\ main = FALSE
    /\ process = "none"
    /\ log = NoLog

self == Trie(root_node, db, dirty)

Set(t) ==
    /\ root_node' = t.root_node
    /\ db' = t.db
    /\ dirty' = t.dirty

\* a digest no node has
UnknownHash == hash(<< >>)

Roots == {roots[i].root : i \in 1..Len(roots)}

\* the digests a caller passes: the roots it was given, and one it was not
RootHashes == Roots \cup {UnknownHash}

\* the outcomes of a store write: never failing, or failing at the n-th write
Fuels == {NoFault} \cup (0..MaxFailAt)

Lookups(t) == [k \in Keys |-> Trie_get_value(t, k)]

NoKv == [pure |-> FALSE, map |-> [k \in Keys |-> None], committed |-> FALSE]

Init ==
    /\ root_node = Trie_new.root_node
    /\ db = Trie_new.db
    /\ dirty = Trie_new.dirty
    /\ last = [op |-> "new", ok |-> TRUE]
    /\ roots = << >>
    /\ kv = [pure |-> TRUE, map |-> [k \in Keys |-> None], committed |-> FALSE]
    /\ calls = [insert |-> 0, commit |-> 0, revert |-> 0]
    /\ NoServer

Insert(key, value) ==
    /\ calls.insert < MaxInserts
    /\ LET r == Trie_insert(self, key, value)
       IN /\ Set(r.t)
          /\ last' = [op |-> "insert", ok |-> r.ret.ok]
          /\ kv' = IF kv.pure /\ ~kv.committed /\ r.ret.ok
                   THEN [kv EXCEPT !.map[key] = Some(value)]
                   ELSE NoKv
    /\ calls' = [calls EXCEPT !.insert = @ + 1]
    /\ UNCHANGED <<roots, server>>

\* the history after a commit call that returned res and left the trie t
Committed(t, res) ==
    /\ roots' = IF res.ok /\ res.val # None
                THEN Append(roots, [root |-> res.val[1], values |-> Lookups(t)])
                ELSE roots
    /\ kv' = IF kv.pure /\ ~kv.committed /\ res.ok
             THEN [kv EXCEPT !.committed = TRUE]
             ELSE NoKv
    /\ calls' = [calls EXCEPT !.commit = @ + 1]

Commit(fuel) ==
    /\ calls.commit < MaxCommits
    /\ LET r == Trie_commit(self, fuel)
       IN /\ Set(r.t)
          /\ last' = [op |-> "commit", ok |-> r.ret.ok]
          /\ Committed(r.t, r.ret)
    /\ UNCHANGED server

Revert(root_hash) ==
    /\ calls.revert < MaxReverts
    /\ LET r == Trie_revert(self, root_hash)
       IN /\ Set(r.t)
          /\ last' = [op |-> "revert", ok |-> r.ret.ok, root_hash |-> root_hash]
    /\ kv' = NoKv
    /\ calls' = [calls EXCEPT !.revert = @ + 1]
    /\ UNCHANGED <<roots, server>>

\* get_value(&self, key) returns Trie_get_value(self, key)
GetValue(key) ==
    /\ key \in Keys
    /\ UNCHANGED vars

GetProof(root_hash, key, fuel) ==
    /\ dirty => calls.commit < MaxCommits
    /\ LET r == Trie_get_proof(self, root_hash, key, fuel)
       IN /\ Set(r.t)
          /\ last' = [op |-> "get_proof", ok |-> r.ret.ok]
          /\ IF dirty THEN Committed(r.t, Trie_commit(self, fuel).ret)
             ELSE UNCHANGED <<roots, kv, calls>>
    /\ UNCHANGED server

\* verify_proof(root_hash, proof_db, key) is a function of its arguments
VerifyProof(root_hash, key) ==
    /\ key \in Keys
    /\ UNCHANGED vars

Next ==
    \/ \E key \in Keys, value \in Values : Insert(key, value)
    \/ \E fuel \in Fuels : Commit(fuel)
    \/ \E root_hash \in RootHashes : Revert(root_hash)
    \/ \E key \in Keys : GetValue(key)
    \/ \E root_hash \in RootHashes, key \in Keys :
           \E fuel \in (IF dirty THEN Fuels ELSE {NoFault}) :
               GetProof(root_hash, key, fuel)
    \/ \E root_hash \in RootHashes, key \in Keys : VerifyProof(root_hash, key)

Spec == Init /\ [][Next]_vars

(***************************************************************************)
(* Notions the properties are stated with.                                 *)
(***************************************************************************)
\* the trie reseated at root_hash over the store
At(root_hash, store) == Trie(HashLink(root_hash), store, FALSE)

IsSome(res) == res.ok /\ res.val # None

\* the digests of the nodes a lookup of key_nb from a link reads in the store
RECURSIVE VisitedLink(_, _, _), VisitedNode(_, _, _)
VisitedNode(n, store, key_nb) ==
    CASE n.tag = "Node" -> {}
      [] n.tag = "Extension" ->
              IF Len(key_nb) >= Len(n.partial_key)
                 /\ SubSeq(key_nb, 1, Len(n.partial_key)) = n.partial_key
              THEN VisitedLink(n.branch, store,
                               SubSeq(key_nb, Len(n.partial_key) + 1, Len(key_nb)))
              ELSE {}
      [] n.tag = "Branch" ->
              IF key_nb = << >> THEN {}
              ELSE VisitedLink(n.children[Head(key_nb)], store, Tail(key_nb))

VisitedLink(l, store, key_nb) ==
    CASE l.link = "Empty" -> {}
      [] l.link = "TrieNode" -> VisitedNode(l.node, store, key_nb)
      [] l.link = "HashValue" ->
              IF l.hash \notin DOMAIN store THEN {}
              ELSE {l.hash} \cup
                   (LET n == Deserialize(store[l.hash])
                    IN IF n.ok THEN VisitedNode(n.val, store, key_nb) ELSE {})

\* the digests of the stored nodes reachable from a link
RECURSIVE ReachLink(_, _), ReachNode(_, _)
ReachNode(n, store) ==
    CASE n.tag = "Node" -> {}
      [] n.tag = "Extension" -> ReachLink(n.branch, store)
      [] n.tag = "Branch" ->
              UNION {ReachLink(n.children[i], store) : i \in 0..(BranchWidth - 1)}

ReachLink(l, store) ==
    CASE l.link = "Empty" -> {}
      [] l.link = "TrieNode" -> ReachNode(l.node, store)
      [] l.link = "HashValue" ->
              IF l.hash \notin DOMAIN store THEN {}
              ELSE {l.hash} \cup
                   (LET n == Deserialize(store[l.hash])
                    IN IF n.ok THEN ReachNode(n.val, store) ELSE {})

(***************************************************************************)
(* C1. Round trip: after inserts into a new trie, in any order, and one    *)
(* commit, get_value returns the last value inserted for every key that    *)
(* was inserted and None for every other key.                              *)
(***************************************************************************)
C1_RoundTrip ==
    (kv.pure /\ kv.committed) =>
        \A k \in Keys : Trie_get_value(self, k) = Ok(kv.map[k])

(***************************************************************************)
(* C2. Proof soundness: for every root r a commit returned and every key   *)
(* k, get_proof(r, k) succeeds and verify_proof on the proof store it      *)
(* returns gives, without a missing-node error, what get_value(k) returns  *)
(* on the trie reverted to r.                                              *)
(***************************************************************************)
C2_ProofSound ==
    \A r \in Roots, k \in Keys :
        LET p == Trie_get_proof(self, r, k, NoFault)
        IN /\ p.ret.ok
           /\ LET v == verify_proof(r, p.ret.val.proof_db, k)
              IN v.ok /\ v = Trie_get_value(Trie_revert(p.t, r).t, k)

\* C2 as amended: the same, for every root a commit returned that the store
\* holds (a commit right after a revert to a digest the store does not hold
\* returns that digest).
C2_ProofSoundStored ==
    \A r \in Roots, k \in Keys :
        LET p == Trie_get_proof(self, r, k, NoFault)
        IN /\ p.ret.ok
           /\ r \in DOMAIN p.t.db =>
                 LET v == verify_proof(r, p.ret.val.proof_db, k)
                 IN v.ok /\ v = Trie_get_value(Trie_revert(p.t, r).t, k)

\* a present and an absent key are proved under an earlier root of a trie
\* that was committed again since
C2_Witness ==
    /\ Len(roots) = 2
    /\ roots[1].root # roots[2].root
    /\ \E k1, k2 \in Keys :
          LET r == roots[1].root
              p1 == Trie_get_proof(self, r, k1, NoFault).ret.val
              p2 == Trie_get_proof(self, r, k2, NoFault).ret.val
          IN /\ p1.exists /\ IsSome(verify_proof(r, p1.proof_db, k1))
             /\ ~p2.exists /\ verify_proof(r, p2.proof_db, k2) = Ok(None)

(***************************************************************************)
(* C3. The exists flag of get_proof(root_hash, k) is true exactly when a   *)
(* lookup of k in the trie rooted at root_hash returns Some, whatever the  *)
(* current root of the trie is.                                            *)
(***************************************************************************)
C3_ExistsIffLookup ==
    \A r \in RootHashes, k \in Keys :
        LET p == Trie_get_proof(self, r, k, NoFault)
        IN /\ p.ret.ok
           /\ p.ret.val.exists <=> IsSome(Trie_get_value(At(r, p.t.db), k))

\* the flag is true for a key under an earlier root and false, under that
\* root, for a key the current root holds
C3_Witness ==
    /\ Len(roots) = 2
    /\ root_node = HashLink(roots[2].root)
    /\ \E k1, k2 \in Keys :
          /\ Trie_get_proof(self, roots[1].root, k1, NoFault).ret.val.exists
          /\ ~Trie_get_proof(self, roots[1].root, k2, NoFault).ret.val.exists
          /\ IsSome(Trie_get_value(self, k2))

(***************************************************************************)
(* C4. Tamper resistance: for every committed root r, key k and proof      *)
(* store P, also one in which an entry holds bytes that do not hash to its *)
(* digest, verify_proof(r, P, k) never returns a value other than the one  *)
(* bound to k under r.                                                     *)
(***************************************************************************)
\* a leaf that binds key_nb to a value of the forger's choice
Forged(key_nb) == {Node(key_nb, SerializeValue(v)) : v \in Values}

\* the proof store of get_proof(r, k) with one entry's bytes replaced
Tampered(proof_db, key_nb) ==
    {[proof_db EXCEPT ![h] = Serialize(n)] : h \in DOMAIN proof_db, n \in Forged(key_nb)}

C4_TamperResistant ==
    \A r \in Roots, k \in Keys :
        LET honest == Trie_get_proof_clean(self, r, k).val.proof_db
            bound == Trie_get_value(At(r, db), k)
        IN \A P \in {honest} \cup Tampered(honest, convert_bytes_to_nibbles(k)) :
               LET v == verify_proof(r, P, k)
               IN IsSome(v) => v = bound

(***************************************************************************)
(* C5. Revert round trip: right after revert(r1), for a root r1 an earlier *)
(* commit returned, get_value returns for every key what it returned right *)
(* after that commit, whatever was inserted and committed since.           *)
(***************************************************************************)
C5_RevertRoundTrip ==
    \A i \in 1..Len(roots) :
        (last.op = "revert" /\ last.root_hash = roots[i].root) =>
            Lookups(self) = roots[i].values

\* revert(r1) after a second commit that added a key and overwrote another
C5_Witness ==
    /\ last.op = "revert"
    /\ Len(roots) = 2
    /\ root_node = HashLink(roots[1].root)
    /\ \E k1, k2 \in Keys :
          /\ roots[1].values[k1] = Ok(None)
          /\ IsSome(roots[2].values[k1])
          /\ IsSome(roots[1].values[k2])
          /\ IsSome(roots[2].values[k2])
          /\ roots[1].values[k2] # roots[2].values[k2]

(***************************************************************************)
(* C6. Commit idempotence: on a trie whose root is a digest or empty,      *)
(* commit returns that root (the root the previous commit returned),       *)
(* leaves the root link as it is and writes nothing to the store: it       *)
(* succeeds even on a store that accepts no write.                         *)
(***************************************************************************)
C6_CommitIdempotent ==
    root_node.link # "TrieNode" =>
        \A fuel \in Fuels :
            LET c == Trie_commit(self, fuel)
            IN /\ c.t.root_node = root_node
               /\ c.t.db = db
               /\ c.ret = IF root_node.link = "HashValue"
                          THEN Ok(Some(root_node.hash)) ELSE Ok(None)
               /\ (last.op = "commit" /\ last.ok /\ root_node.link = "HashValue") =>
                      c.ret = Ok(Some(roots[Len(roots)].root))

\* a second commit right after a commit returned the same root
C6_Witness ==
    /\ last.op = "commit"
    /\ last.ok
    /\ calls = [insert |-> 1, commit |-> 2, revert |-> 0]
    /\ Len(roots) = 2
    /\ roots[1].root = roots[2].root
    /\ root_node = HashLink(roots[2].root)

(***************************************************************************)
(* C8. Committed history is immutable: no step that writes to the store,   *)
(* also not a commit that stops at a failing write, removes or changes a   *)
(* store entry reachable from a root a commit returned, and after it       *)
(* lookups under every such root return what they returned right after     *)
(* that root's commit.                                                     *)
(***************************************************************************)
C8_HistoryImmutable ==
    [][db' # db =>
          \A i \in 1..Len(roots) :
              /\ \A h \in ReachLink(HashLink(roots[i].root), db) :
                    h \in DOMAIN db' /\ db'[h] = db[h]
              /\ Lookups(At(roots[i].root, db')) = roots[i].values]_vars

\* a commit failed after writing a node no committed root reaches
C8_Witness ==
    /\ last.op = "commit"
    /\ ~last.ok
    /\ Len(roots) = 1
    /\ DOMAIN db # ReachLink(HashLink(roots[1].root), db)
    /\ \E k \in Keys : IsSome(Trie_get_value(At(roots[1].root, db), k))

(***************************************************************************)
(* C9. A failed insert is not observable: when insert returns an error the *)
(* root link and the dirty flag are what they were before the call.        *)
(***************************************************************************)
C9_FailedInsertUnobservable ==
    [][(last'.op = "insert" /\ ~last'.ok) =>
          (root_node' = root_node /\ dirty' = dirty)]_vars

(***************************************************************************)
(* C10. Proof minimality: the proof store of get_proof(r, k) holds exactly *)
(* the store entries of the nodes a lookup of k from r reads, the root     *)
(* included, and nothing else.                                             *)
(***************************************************************************)
C10_ProofMinimal ==
    \A r \in RootHashes, k \in Keys :
        LET p == Trie_get_proof(self, r, k, NoFault)
            path == VisitedLink(HashLink(r), p.t.db, convert_bytes_to_nibbles(k))
        IN /\ p.ret.ok
           /\ p.ret.val.proof_db = [h \in path |-> p.t.db[h]]

\* a proof of several nodes that leaves out a node of the committed trie
C10_Witness ==
    \E r \in Roots, k \in Keys :
        LET P == Trie_get_proof(self, r, k, NoFault).ret.val.proof_db
        IN /\ Cardinality(DOMAIN P) >= 2
           /\ DOMAIN P # ReachLink(HashLink(r), db)
           /\ r \in DOMAIN P

(***************************************************************************)
(* C11. Proof generation does not change the backing store: in every state *)
(* and for every root_hash and key, the store after get_proof has the      *)
(* entries it had before the call.                                         *)
(***************************************************************************)
C11_ProofKeepsStore ==
    \A r \in RootHashes, k \in Keys, fuel \in Fuels :
        Trie_get_proof(self, r, k, fuel).t.db = db

\* C11 as amended: the same, for every state in which the trie is not dirty
\* (get_proof on a dirty trie commits first, and the commit writes the nodes
\* inserted since the last commit).
C11_CleanProofKeepsStore ==
    ~dirty =>
        \A r \in RootHashes, k \in Keys, fuel \in Fuels :
            Trie_get_proof(self, r, k, fuel).t.db = db

\* get_proof on a clean trie returned a proof store of several nodes
C11_Witness ==
    /\ last.op = "get_proof"
    /\ last.ok
    /\ ~dirty
    /\ \E r \in Roots, k \in Keys :
          Cardinality(DOMAIN Trie_get_proof(self, r, k, NoFault).ret.val.proof_db) >= 2

(***************************************************************************)
(* C12. Content addressing: in every state every entry of the backing      *)
(* store is kept under the digest of its bytes, and every entry of a proof *)
(* store get_proof returns is an entry of the backing store.               *)
(***************************************************************************)
C12_ContentAddressed ==
    /\ \A h \in DOMAIN db : h = hash(db[h])
    /\ \A r \in RootHashes, k \in Keys :
          LET p == Trie_get_proof(self, r, k, NoFault)
          IN p.ret.ok /\ \A h \in DOMAIN p.ret.val.proof_db :
                 h \in DOMAIN p.t.db /\ p.ret.val.proof_db[h] = p.t.db[h]

\* two commits wrote several nodes, and a proof under the first root copies some
C12_Witness ==
    /\ Len(roots) = 2
    /\ Cardinality(DOMAIN db) >= 4
    /\ \E k \in Keys :
          Cardinality(DOMAIN Trie_get_proof(self, roots[1].root, k, NoFault).ret.val.proof_db) >= 2

(***************************************************************************)
(* C13. Persisted shape: right after a successful commit the root link is  *)
(* a digest or empty, commit never reaches its unreachable arm, and every  *)
(* node in the store has only digest or empty child links, each digest a   *)
(* key of the store.                                                       *)
(***************************************************************************)
\* the child links of a node
Children(n) ==
    CASE n.tag = "Node" -> {}
      [] n.tag = "Extension" -> {n.branch}
      [] n.tag = "Branch" -> {n.children[i] : i \in 0..(BranchWidth - 1)}

C13_PersistedShape ==
    /\ (last.op = "commit" /\ last.ok) => root_node.link \in {"HashValue", "Empty"}
    /\ \A fuel \in Fuels : Trie_commit(self, fuel).ret # Err("unreachable")
    /\ \A h \in DOMAIN db :
          LET n == Deserialize(db[h])
          IN n.ok /\ \A l \in Children(n.val) :
                 \/ l.link = "Empty"
                 \/ l.link = "HashValue" /\ l.hash \in DOMAIN db

\* a commit stored an extension over a branch with two stored leaves
C13_Witness ==
    /\ last.op = "commit"
    /\ last.ok
    /\ root_node.link = "HashValue"
    /\ \E h \in DOMAIN db :
          LET n == Deserialize(db[h]).val
          IN /\ n.tag = "Extension"
             /\ Cardinality({l \in Children(Deserialize(db[n.branch.hash]).val) :
                                 l.link = "HashValue"}) >= 2

(***************************************************************************)
(* C14. Extension non-triviality: in every state, every Extension node, in *)
(* memory under the root or in the store, has a partial_key of at least    *)
(* one nibble and a child link that resolves to a Branch.                  *)
(***************************************************************************)
\* the node a link resolves to over a store, if any
Resolved(l, store) ==
    CASE l.link = "TrieNode" -> Some(l.node)
      [] l.link = "HashValue" ->
              IF l.hash \in DOMAIN store /\ Deserialize(store[l.hash]).ok
              THEN Some(Deserialize(store[l.hash]).val) ELSE None
      [] l.link = "Empty" -> None

\* the nodes held in memory under a link
RECURSIVE InlineNodes(_)
InlineNodes(l) ==
    IF l.link = "TrieNode"
    THEN {l.node} \cup UNION {InlineNodes(c) : c \in Children(l.node)}
    ELSE {}

\* the nodes of a trie: those in memory and those in the store
AllNodes == InlineNodes(root_node) \cup {Deserialize(db[h]).val : h \in DOMAIN db}

C14_ExtensionShape ==
    \A n \in AllNodes :
        n.tag = "Extension" =>
            /\ Len(n.partial_key) >= 1
            /\ Resolved(n.branch, db) # None
            /\ Resolved(n.branch, db)[1].tag = "Branch"

\* an insert after a commit left an extension in memory over a stored branch,
\* and the store holds an extension of several nibbles
C14_Witness ==
    /\ last.op = "insert"
    /\ \E n \in InlineNodes(root_node) : n.tag = "Extension" /\ n.branch.link = "HashValue"
    /\ \E h \in DOMAIN db :
          LET n == Deserialize(db[h]).val
          IN n.tag = "Extension" /\ Len(n.partial_key) >= 2

(***************************************************************************)
(* C15. A missing key is an absent result: get_value returns an error      *)
(* exactly when a digest link on the path of the key is absent from the    *)
(* store or its bytes do not decode, in the trie itself and under every    *)
(* committed root over a store that lost one entry; and for a key that was *)
(* never inserted into the trie it otherwise returns Ok(None).             *)
(***************************************************************************)
\* a digest link on the path of key_nb is absent from the store, or its bytes
\* do not decode
RECURSIVE BrokenLink(_, _, _), BrokenNode(_, _, _)
BrokenNode(n, store, key_nb) ==
    CASE n.tag = "Node" -> FALSE
      [] n.tag = "Extension" ->
              /\ Len(key_nb) >= Len(n.partial_key)
              /\ SubSeq(key_nb, 1, Len(n.partial_key)) = n.partial_key
              /\ BrokenLink(n.branch, store,
                            SubSeq(key_nb, Len(n.partial_key) + 1, Len(key_nb)))
      [] n.tag = "Branch" ->
              /\ key_nb # << >>
              /\ BrokenLink(n.children[Head(key_nb)], store, Tail(key_nb))

BrokenLink(l, store, key_nb) ==
    CASE l.link = "Empty" -> FALSE
      [] l.link = "TrieNode" -> BrokenNode(l.node, store, key_nb)
      [] l.link = "HashValue" ->
              \/ l.hash \notin DOMAIN store
              \/ ~Deserialize(store[l.hash]).ok
              \/ BrokenNode(Deserialize(store[l.hash]).val, store, key_nb)

\* the store without the entry of h
Without(store, h) == [x \in DOMAIN store \ {h} |-> store[x]]

\* the trie itself, and each committed root over the store less one entry
Damaged ==
    {self} \cup {At(r, Without(db, h)) : r \in Roots, h \in DOMAIN db}

C15_MissingKeyIsAbsent ==
    \A t \in Damaged, k \in Keys :
        LET r == Trie_get_value(t, k)
            broken == BrokenLink(t.root_node, t.db, convert_bytes_to_nibbles(k))
        IN /\ r.ok <=> ~broken
           /\ (t = self /\ kv.pure /\ kv.map[k] = None /\ ~broken) => r = Ok(None)

(***************************************************************************)
(* C16. revert always succeeds: for every state and every digest, held by  *)
(* the store or not, revert returns Ok, reseats the root at the digest,    *)
(* clears dirty and leaves the store as it is; when the store does not     *)
(* hold the digest, get_value of every key is then a store-miss error.     *)
(***************************************************************************)
C16_RevertAlwaysSucceeds ==
    \A h \in RootHashes :
        LET r == Trie_revert(self, h)
        IN /\ r.ret = Ok("unit")
           /\ r.t = Trie(HashLink(h), db, FALSE)
           /\ h \notin DOMAIN db =>
                 \A k \in Keys : Trie_get_value(r.t, k) = Err("Database")

\* a trie with committed and pending entries was reverted to a digest the
\* store does not hold
C16_Witness ==
    /\ last.op = "revert"
    /\ last.root_hash \notin DOMAIN db
    /\ root_node = HashLink(last.root_hash)
    /\ Len(roots) >= 1
    /\ calls.insert >= 2
    /\ \A k \in Keys : Trie_get_value(self, k) = Err("Database")

(***************************************************************************)
(* C17. get_proof of a root the store does not hold: for every state, key  *)
(* and digest absent from the store, get_proof returns Ok((false, empty    *)
(* proof store)), on a clean trie and on a dirty one once its commit has   *)
(* succeeded.                                                              *)
(***************************************************************************)
C17_AbsentRootProof ==
    \A h \in RootHashes, k \in Keys, fuel \in Fuels :
        h \notin DOMAIN db =>
            LET p == Trie_get_proof(self, h, k, fuel)
            IN \/ dirty /\ ~Trie_commit(self, fuel).ret.ok /\ ~p.ret.ok
               \/ p.ret = Ok([exists |-> FALSE, proof_db |-> EmptyDb])

\* a dirty trie over a store with entries: get_proof of an absent root commits
\* and returns (false, empty)
C17_Witness ==
    /\ dirty
    /\ DOMAIN db # {}
    /\ \E k \in Keys :
          LET p == Trie_get_proof(self, UnknownHash, k, NoFault)
          IN /\ p.t.db # db
             /\ p.ret = Ok([exists |-> FALSE, proof_db |-> EmptyDb])

(***************************************************************************)
(* C18. verify_proof on an incomplete proof store: for every root, key and *)
(* proof store that is the proof of get_proof less one entry, or empty,    *)
(* verify_proof returns Ok(None) when the store lacks the root and a       *)
(* missing-node error when it holds the root but lacks a node on the path  *)
(* of the key.                                                             *)
(***************************************************************************)
\* the proof store of get_proof(r, k) less one entry, and the empty store
Incomplete(proof_db) == {EmptyDb} \cup {Without(proof_db, h) : h \in DOMAIN proof_db}

C18_IncompleteProof ==
    \A r \in RootHashes, k \in Keys :
        \A P \in Incomplete(Trie_get_proof_clean(self, r, k).val.proof_db) :
            LET v == verify_proof(r, P, k)
            IN /\ r \notin DOMAIN P => v = Ok(None)
               /\ (r \in DOMAIN P /\ BrokenLink(HashLink(r), P, convert_bytes_to_nibbles(k)))
                      => v = Err("Database")

\* a proof of several nodes: without its root it verifies as absent, without
\* another node it is a missing-node error
C18_Witness ==
    \E r \in Roots, k \in Keys :
        LET honest == Trie_get_proof_clean(self, r, k).val.proof_db
        IN /\ IsSome(verify_proof(r, honest, k))
           /\ verify_proof(r, Without(honest, r), k) = Ok(None)
           /\ \E h \in DOMAIN honest \ {r} :
                  verify_proof(r, Without(honest, h), k) = Err("Database")

(***************************************************************************)
(* C19. commit of an empty trie: whenever the root is Empty, commit        *)
(* returns Ok(None), writes nothing to the store, also to one that accepts *)
(* no write, and leaves the root Empty and dirty false.                    *)
(***************************************************************************)
C19_EmptyCommit ==
    root_node = EmptyLink =>
        \A fuel \in Fuels :
            Trie_commit(self, fuel) = Returned(Trie(EmptyLink, db, FALSE), Ok(None))

\* the first call on a new trie was a commit
C19_Witness ==
    /\ last.op = "commit"
    /\ last.ok
    /\ calls = [insert |-> 0, commit |-> 1, revert |-> 0]
    /\ roots = << >>
    /\ self = Trie(EmptyLink, EmptyDb, FALSE)

(***************************************************************************)
(* C20. Dirty flag: a new trie has root Empty and dirty false; in every    *)
(* state an insert that succeeds leaves dirty true, a commit that succeeds *)
(* and every revert leave dirty false; and the flag is what the last of    *)
(* these calls left. get_value takes the trie by shared reference: it      *)
(* returns a value and no trie.                                            *)
(***************************************************************************)
C20_DirtyLifecycle ==
    /\ Trie_new.root_node = EmptyLink /\ ~Trie_new.dirty
    /\ last.op = "new" => (root_node = EmptyLink /\ ~dirty)
    /\ \A k \in Keys, v \in Values :
          LET r == Trie_insert(self, k, v) IN r.ret.ok => r.t.dirty
    /\ \A fuel \in Fuels :
          LET r == Trie_commit(self, fuel) IN r.ret.ok => ~r.t.dirty
    /\ \A h \in RootHashes : ~Trie_revert(self, h).t.dirty
    /\ (last.op = "insert" /\ last.ok) => dirty
    /\ (last.op \in {"commit", "get_proof"} /\ last.ok) => ~dirty
    /\ last.op = "revert" => ~dirty

\* an insert after a commit and a revert made the trie dirty again
C20_Witness ==
    /\ last.op = "insert"
    /\ last.ok
    /\ dirty
    /\ calls.commit >= 1
    /\ calls.revert >= 1

(***************************************************************************)
(* C21. get_proof commits a dirty trie first: when get_proof returns Ok on *)
(* a dirty trie the trie is the one commit leaves (dirty false, root a     *)
(* digest) and the proof is the one made over the store with the nodes     *)
(* just committed, so the root just committed is proved from it; on a      *)
(* trie that is not dirty get_proof leaves the trie as it is, whatever     *)
(* root it is asked about.                                                 *)
(***************************************************************************)
C21_ProofCommitsFirst ==
    \A k \in Keys, fuel \in Fuels :
        LET c == Trie_commit(self, fuel)
            asked == RootHashes \cup
                     (IF c.ret.ok /\ c.ret.val # None THEN {c.ret.val[1]} ELSE {})
        IN \A r \in asked :
               LET p == Trie_get_proof(self, r, k, fuel)
               IN /\ ~dirty => p.t = self
                  /\ (dirty /\ p.ret.ok) =>
                         /\ ~p.t.dirty
                         /\ p.t.root_node.link = "HashValue"
                         /\ p.t = c.t
                         /\ p.ret = Trie_get_proof_clean(c.t, r, k)
                         /\ r = p.t.root_node.hash =>
                                /\ r \in DOMAIN p.ret.val.proof_db
                                /\ p.ret.val.exists <=> IsSome(Trie_get_value(self, k))

(***************************************************************************)
(* C22. insert leaves an inline root and does not write: in every state a  *)
(* successful insert leaves a root link that is a node in memory, insert   *)
(* (successful or not) and revert leave the store as it is, and so does    *)
(* get_proof on a trie that is not dirty: only commit adds store entries.  *)
(***************************************************************************)
C22_InsertInlineNoWrite ==
    /\ \A k \in Keys, v \in Values :
          LET r == Trie_insert(self, k, v)
          IN /\ r.ret.ok => r.t.root_node.link = "TrieNode"
             /\ r.t.db = db
    /\ (last.op = "insert" /\ last.ok) => root_node.link = "TrieNode"
    /\ \A h \in RootHashes : Trie_revert(self, h).t.db = db
    /\ ~dirty => \A h \in RootHashes, k \in Keys :
                     Trie_get_proof(self, h, k, NoFault).t.db = db

\* an insert into a committed trie read stored nodes and left them alone
C22_Witness ==
    /\ last.op = "insert"
    /\ last.ok
    /\ Len(roots) >= 1
    /\ root_node.link = "TrieNode"
    /\ \E c \in Children(root_node.node) : c.link = "HashValue"
    /\ DOMAIN db = ReachLink(HashLink(roots[1].root), db)

(***************************************************************************)
(* C25. Extension insert, one nibble of the partial key left over: when    *)
(* the part of the partial key the new key does not share is one nibble    *)
(* long, the result of Extension::insert holds a new Branch with the old   *)
(* child link in the slot of that nibble and the new key's remainder       *)
(* inserted, the Branch is wrapped in an Extension over the shared part    *)
(* whenever that part is not empty, and every key found under the          *)
(* extension before is found after with the same value.                    *)
(***************************************************************************)
\* the nibble slices the nodes of a trie are handed: the tails of the keys
KeyTails ==
    UNION {{SubSeq(convert_bytes_to_nibbles(k), i, 2 * Len(k)) : i \in 1..(2 * Len(k) + 1)} :
           k \in Keys}

C25_OneNibbleRemainder ==
    \A n \in AllNodes, key_nb \in KeyTails, v \in Values :
        n.tag = "Extension" =>
            LET p == parse_nibble_slices_shared_portion(n.partial_key, key_nb)
                r == Extension_insert(n, db, key_nb, SerializeValue(v))
            IN (Len(p.r1) = 1 /\ r.ok) =>
                   /\ IF p.shared = << >>
                      THEN r.val.tag = "Branch"
                      ELSE /\ r.val.tag = "Extension"
                           /\ r.val.partial_key = p.shared
                           /\ r.val.branch.link = "TrieNode"
                           /\ r.val.branch.node.tag = "Branch"
                   /\ LET b == IF p.shared = << >> THEN r.val ELSE r.val.branch.node
                      IN /\ b.children[p.r1[1]] = n.branch
                         /\ Branch_get_value(b, db, p.r2) = Ok(Some(SerializeValue(v)))
                   /\ \A s \in KeyTails :
                          IsSome(TrieNode_get_value(n, db, s)) =>
                              TrieNode_get_value(r.val, db, s) = TrieNode_get_value(n, db, s)

(***************************************************************************)
(* C26. Leaf split: Node::insert of a key other than the leaf's own gives  *)
(* a Branch that holds the old value at the leaf's remainder and the new   *)
(* value at the key's remainder (in the Branch's value when the remainder  *)
(* is empty, else in a leaf under the slot of its first nibble), bare when *)
(* the two slices share no prefix and wrapped in an Extension over the     *)
(* shared prefix otherwise; a key that is a proper prefix of the leaf's,   *)
(* or differs from it in the last nibble only, included.                   *)
(***************************************************************************)
\* the leaves of the trie, and a leaf for every key tail
Leaves ==
    {n \in AllNodes : n.tag = "Node"} \cup
    {Node(s, SerializeValue(v)) : s \in KeyTails, v \in Values}

\* the branch that holds old at r1 and new at r2, two slices that are not
\* both empty and do not start with the same nibble
SplitBranch(r1, old, r2, new) ==
    Branch([i \in 0..(BranchWidth - 1) |->
               IF r1 # << >> /\ i = r1[1] THEN NodeLink(Node(Tail(r1), old))
               ELSE IF r2 # << >> /\ i = r2[1] THEN NodeLink(Node(Tail(r2), new))
               ELSE EmptyLink],
           IF r1 = << >> THEN Some(old)
           ELSE IF r2 = << >> THEN Some(new)
           ELSE None)

C26_LeafSplit ==
    \A n \in Leaves, key_nb \in KeyTails, v \in Values :
        n.rest_of_key # key_nb =>
            \E i \in 0..Len(key_nb) :
                LET shared == SubSeq(key_nb, 1, i)
                    r1 == SubSeq(n.rest_of_key, i + 1, Len(n.rest_of_key))
                    r2 == SubSeq(key_nb, i + 1, Len(key_nb))
                    b == SplitBranch(r1, n.value, r2, SerializeValue(v))
                IN /\ n.rest_of_key = shared \o r1
                   /\ r1 = << >> \/ r2 = << >> \/ r1[1] # r2[1]
                   /\ Node_insert(n, db, key_nb, SerializeValue(v)) =
                          Ok(IF shared = << >> THEN b ELSE Extension(shared, NodeLink(b)))

\* the last insert split a leaf in memory: the trie holds an extension over a
\* branch of two leaves (keys that differ in the last nibble), or over a branch
\* with a value and one leaf (a key that is a proper prefix of the other)
C26_Witness ==
    /\ last.op = "insert"
    /\ last.ok
    /\ calls.insert = 2
    /\ db = EmptyDb
    /\ root_node.link = "TrieNode"
    /\ root_node.node.tag = "Extension"
    /\ LET b == root_node.node.branch.node
       IN \/ /\ b.value = None
             /\ Cardinality({i \in 0..(BranchWidth - 1) : b.children[i] # EmptyLink}) = 2
             /\ Len(root_node.node.partial_key) = 3
          \/ /\ b.value # None
             /\ Cardinality({i \in 0..(BranchWidth - 1) : b.children[i] # EmptyLink}) = 1

(***************************************************************************)
(* C27. Insert frame and overwrite: in every state, when insert(k, v)      *)
(* returns Ok, get_value(k) returns Some(v) and get_value(k2) returns what *)
(* it returned before the insert for every other key k2.                   *)
(***************************************************************************)
C27_InsertFrame ==
    \A k \in Keys, v \in Values :
        LET r == Trie_insert(self, k, v)
        IN r.ret.ok =>
               /\ Trie_get_value(r.t, k) = Ok(Some(v))
               /\ \A k2 \in Keys \ {k} : Trie_get_value(r.t, k2) = Trie_get_value(self, k2)

(***************************************************************************)
(* C28. Longest common prefix split: for the slices the trie compares (the *)
(* key part of a node against a key tail, and key tails against each       *)
(* other) parse_nibble_slices_shared_portion(a, b) returns (shared,        *)
(* rest_a, rest_b) with shared followed by rest_a equal to a, shared       *)
(* followed by rest_b equal to b, and shared the longest common prefix:    *)
(* one of the rests is empty or their first nibbles differ.                *)
(***************************************************************************)
\* the key parts of the nodes of the trie
NodeSlices ==
    {n.rest_of_key : n \in {m \in AllNodes : m.tag = "Node"}} \cup
    {n.partial_key : n \in {m \in AllNodes : m.tag = "Extension"}}

\* the slices of the unit test of the function
TestSlices == {<<1, 2, 3>>, <<1, 2, 3, 4>>}

C28_SharedPortion ==
    \A a \in NodeSlices \cup KeyTails \cup TestSlices, b \in KeyTails \cup TestSlices :
        LET p == parse_nibble_slices_shared_portion(a, b)
        IN /\ p.shared \o p.r1 = a
           /\ p.shared \o p.r2 = b
           /\ p.r1 = << >> \/ p.r2 = << >> \/ p.r1[1] # p.r2[1]

\* an insert split a leaf whose key and the new key share a prefix and both
\* go on after it
C28_Witness ==
    /\ last.op = "insert"
    /\ last.ok
    /\ \E a \in NodeSlices, b \in KeyTails :
          LET p == parse_nibble_slices_shared_portion(a, b)
          IN /\ p.shared # << >>
             /\ p.r1 # << >>
             /\ p.r2 # << >>
             /\ \E n \in InlineNodes(root_node) :
                     n.tag = "Extension" /\ n.partial_key = p.shared

(***************************************************************************)
(* C29. A Branch with one populated slot and no value: the statement is    *)
(* that some sequence of inserts leaves such a Branch in the trie. Stated  *)
(* over the inserts of up to MaxInserts keys into a new trie.              *)
(***************************************************************************)
\* the number of populated slots of a branch
Populated(n) == Cardinality({i \in 0..(BranchWidth - 1) : n.children[i] # EmptyLink})

\* a branch with exactly one populated slot and no value
Lonely(n) == n.tag = "Branch" /\ n.value = None /\ Populated(n) = 1

\* the tries that up to n inserts leave of a trie t
RECURSIVE Inserted(_, _)
Inserted(t, n) ==
    IF n = 0 THEN {t}
    ELSE {t} \cup UNION {Inserted(Trie_insert(t, k, v).t, n - 1) : k \in Keys, v \in Values}

C29_LonelyBranchReachable ==
    \E t \in Inserted(Trie_new, MaxInserts) :
        \E n \in InlineNodes(t.root_node) : Lonely(n)

(***************************************************************************)
(* C29, as the code has it: no Branch of the trie, in memory or stored,    *)
(* has one populated slot and no value. Every Branch holds at least two    *)
(* entries (populated slots, or a value and a populated slot), and no      *)
(* insert into the trie leaves a Branch with fewer.                        *)
(***************************************************************************)
C29_NoLonelyBranch ==
    /\ \A n \in AllNodes :
          n.tag = "Branch" => Populated(n) + (IF n.value = None THEN 0 ELSE 1) >= 2
    /\ \A k \in Keys, v \in Values :
          \A n \in InlineNodes(Trie_insert(self, k, v).t.root_node) : ~Lonely(n)

\* the trie holds, in memory and in the store, branches with no more than
\* two entries: one with a value and one slot, one with two slots
C29_Witness ==
    /\ \E n \in InlineNodes(root_node) :
          n.tag = "Branch" /\ n.value # None /\ Populated(n) = 1
    /\ \E h \in DOMAIN db :
          LET n == Deserialize(db[h]).val
          IN n.tag = "Branch" /\ n.value = None /\ Populated(n) = 2

(***************************************************************************)
(* The wire adapter (src/src/network/pb). A ProofRequest carries a root    *)
(* digest and a key as byte strings, a ProofResponse the exists flag and   *)
(* the bincode encoding of the proof store.                                *)
(***************************************************************************)
\* the number of bytes of a HashValue
HashLen == 32

\* <[u8; 32]>::to_vec: the bytes of a digest, each known by its digest and place
to_vec(h) == [i \in 1..HashLen |-> [of |-> h, at |-> i]]

\* the digest that HashLen bytes are
HashValue_of(v) ==
    IF \A i \in 1..HashLen : v[i] = [of |-> v[1].of, at |-> i]
    THEN v[1].of
    ELSE [bytes |-> v]

\* Vec<u8>::try_into::<[u8; 32]>: the vector is handed back when its length is not 32
try_into_HashValue(v) == IF Len(v) = HashLen THEN Ok(HashValue_of(v)) ELSE Err(v)

\* core::str::from_utf8, the check of String::from_utf8: one scalar value at
\* a time, by the range of the first byte and of the byte after it
RECURSIVE run_utf8_validation(_, _)
run_utf8_validation(v, i) ==
    IF i > Len(v) THEN TRUE
    ELSE IF v[i] < 128 THEN run_utf8_validation(v, i + 1)
    ELSE IF v[i] >= 194 /\ v[i] <= 223
         THEN /\ i + 1 <= Len(v)
              /\ v[i + 1] >= 128 /\ v[i + 1] <= 191
              /\ run_utf8_validation(v, i + 2)
    ELSE IF v[i] >= 224 /\ v[i] <= 239
         THEN /\ i + 2 <= Len(v)
              /\ v[i + 1] >= (IF v[i] = 224 THEN 160 ELSE 128)
              /\ v[i + 1] <= (IF v[i] = 237 THEN 159 ELSE 191)
              /\ v[i + 2] >= 128 /\ v[i + 2] <= 191
              /\ run_utf8_validation(v, i + 3)
    ELSE IF v[i] >= 240 /\ v[i] <= 244
         THEN /\ i + 3 <= Len(v)
              /\ v[i + 1] >= (IF v[i] = 240 THEN 144 ELSE 128)
              /\ v[i + 1] <= (IF v[i] = 244 THEN 143 ELSE 191)
              /\ v[i + 2] >= 128 /\ v[i + 2] <= 191
              /\ v[i + 3] >= 128 /\ v[i + 3] <= 191
              /\ run_utf8_validation(v, i + 4)
    ELSE FALSE

\* String::from_utf8: a String is its bytes
String_from_utf8(v) == IF run_utf8_validation(v, 1) THEN Ok(v) ELSE Err(v)

\* Result::map_err
map_err(r, e) == IF r.ok THEN r ELSE Err(e)

ProofRequest(root_hash, key) == [root_hash |-> root_hash, key |-> key]
ProofResponse(exists, proof_db) == [exists |-> exists, proof_db |-> proof_db]

\* mutant: the key is converted before the digest
ProofRequest_try_into_key_first(v) ==
    Try(map_err(String_from_utf8(v.key), "InvalidKey"), LAMBDA key :
    Try(map_err(try_into_HashValue(v.root_hash), "InvalidHashValue"), LAMBDA root_hash :
        Ok(<<root_hash.val, key.val>>)))

\* TryFrom<ProofRequest> for (HashValue, String)
ProofRequest_try_into(v) ==
    Try(map_err(try_into_HashValue(v.root_hash), "InvalidHashValue"), LAMBDA root_hash :
    Try(map_err(String_from_utf8(v.key), "InvalidKey"), LAMBDA key :
        Ok(<<root_hash.val, key.val>>)))

\* From<(HashValue, String)> for ProofRequest
ProofRequest_from(v) == ProofRequest(to_vec(v[1]), v[2])

\* bincode::serialize(&MemoryDatabase): the number of entries of the HashMap,
\* then each entry, digest and Vec, in the order the HashMap iterates
RECURSIVE SerEntries(_, _, _)
SerEntries(data, order, i) ==
    IF i > Len(order) THEN << >>
    ELSE <<order[i]>> \o SerVec(data[order[i]]) \o SerEntries(data, order, i + 1)

SerializeDatabase(data, order) == <<Len(order)>> \o SerEntries(data, order, 1)

\* bincode::deserialize::<MemoryDatabase>: the entries are inserted into a
\* new HashMap one after the other
RECURSIVE DeEntries(_, _, _, _)
DeEntries(s, i, n, acc) ==
    IF n = 0 THEN Read(acc, i)
    ELSE IF i > Len(s) THEN Fail
    ELSE Try(DeVec(s, i + 1),
             LAMBDA v : DeEntries(s, v.next, n - 1, Database_insert(acc, s[i], v.val)))

DeserializeDatabase(s) ==
    Decoded(IF Len(s) = 0 THEN Fail ELSE DeEntries(s, 2, s[1], EmptyDb))

\* the orders a HashMap may iterate its keys in
Orders(S) ==
    {o \in [1..Cardinality(S) -> S] : \A i, j \in 1..Cardinality(S) : o[i] = o[j] => i = j}

\* mutant: the exists flag is not carried
ProofResponse_try_from_noflag(v, order) ==
    Ok(ProofResponse(FALSE, SerializeDatabase(v[2], order)))

\* TryFrom<(bool, MemoryDatabase)> for ProofResponse
ProofResponse_try_from(v, order) ==
    Ok(ProofResponse(v[1], SerializeDatabase(v[2], order)))

\* TryFrom<ProofResponse> for (bool, MemoryDatabase)
ProofResponse_try_into(v) ==
    Try(DeserializeDatabase(v.proof_db), LAMBDA proof_db : Ok(<<v.exists, proof_db.val>>))

(***************************************************************************)
(* The proof server (src/examples/tcp_server.rs; the libp2p node has the   *)
(* same process_proof_request). main builds the trie with init_trie,       *)
(* spawns process_proof_request with the receiver of the channel and hands *)
(* a clone of the sender to the task of every connection. A connection     *)
(* task sends one request with a oneshot sender and waits for the answer.  *)
(***************************************************************************)
\* what one turn of the loop of process_proof_request does with a request:
\* the trie it leaves, what it logs or sends, and whether the loop goes on
Turn(t, outcome, response, loop) ==
    [t |-> t, outcome |-> outcome, response |-> response, loop |-> loop]

\* match r { Ok(x) => x, Err(e) => { log::error!(..); continue } }
OrContinue(r, t, F(_)) == IF r.ok THEN F(r) ELSE Turn(t, r.err, None, "continue")

\* let x = e;
Let(x, F(_)) == F(x)

\* let x = r?;
OrReturn(r, t, F(_)) == IF r.ok THEN F(r) ELSE Turn(t, r.err, None, "return")

\* mutant: an error is returned from the function, as ? would
process_proof_request_try(t, proof_request, order) ==
    OrReturn(ProofRequest_try_into(proof_request), t, LAMBDA converted :
    Let(Trie_get_proof(t, converted.val[1], converted.val[2], NoFault), LAMBDA got :
    OrReturn(got.ret, got.t, LAMBDA proof :
    OrReturn(ProofResponse_try_from(<<proof.val.exists, proof.val.proof_db>>, order),
             got.t, LAMBDA proof_response :
        Turn(got.t, "sent", Some(proof_response.val), "continue")))))

\* the body of the while loop of process_proof_request
process_proof_request(t, proof_request, order) ==
    OrContinue(ProofRequest_try_into(proof_request), t, LAMBDA converted :
    Let(Trie_get_proof(t, converted.val[1], converted.val[2], NoFault), LAMBDA got :
    OrContinue(got.ret, got.t, LAMBDA proof :
    OrContinue(ProofResponse_try_from(<<proof.val.exists, proof.val.proof_db>>, order),
               got.t, LAMBDA proof_response :
        Turn(got.t, "sent", Some(proof_response.val), "continue")))))

\* the orders the proof store of the answer to a request may be iterated in
ProofOrdersOf(got) ==
    IF got.ret.ok THEN Orders(DOMAIN got.ret.val.proof_db) ELSE {<< >>}

ProofOrdersFor(t, converted) ==
    IF converted.ok
    THEN ProofOrdersOf(Trie_get_proof(t, converted.val[1], converted.val[2], NoFault))
    ELSE {<< >>}

ProofOrders(t, proof_request) == ProofOrdersFor(t, ProofRequest_try_into(proof_request))

\* init_trie: the data of the server, inserted and committed
ServerData == <<[key |-> <<0, 0>>, value |-> <<1>>], [key |-> <<0, 1>>, value |-> <<2>>]>>

RECURSIVE InsertData(_, _)
InsertData(t, i) ==
    IF i > Len(ServerData) THEN t
    ELSE InsertData(Trie_insert(t, ServerData[i].key, ServerData[i].value).t, i + 1)

init_trie == Trie_commit(InsertData(Trie_new, 1), NoFault)

\* the store main opens: the one init_trie leaves, whole or with a node other
\* than the root lost on disk
ServerStores ==
    {init_trie.t.db} \cup
    {Without(init_trie.t.db, h) : h \in DOMAIN init_trie.t.db \ {init_trie.ret.val[1]}}

\* the byte strings a peer sends as a key: Strings, and bytes that are not UTF-8
Utf8Keys == {<<0, 0>>, <<1>>, <<195, 169>>}
NotUtf8Keys == {<<255>>, <<195>>, <<192, 128>>}
WireKeys == Utf8Keys \cup NotUtf8Keys

\* the byte strings a peer sends as a root: the bytes of a digest, and
\* strings of 31 and 33 bytes
WireRoots ==
    UNION {{to_vec(h), SubSeq(to_vec(h), 1, HashLen - 1), to_vec(h) \o <<[of |-> h, at |-> 1]>>} :
           h \in RootHashes}

ProofRequests == {ProofRequest(r, k) : r \in WireRoots, k \in WireKeys}

\* the requests the clients of the server send: for the root init_trie
\* printed or 31 bytes of it, for a key of the data, a key that is not in the
\* data, or bytes that are not UTF-8
ClientRequests ==
    {ProofRequest(r, k) :
        r \in {to_vec(init_trie.ret.val[1]), SubSeq(to_vec(init_trie.ret.val[1]), 1, HashLen - 1)},
        k \in {<<0, 0>>, <<1>>, <<255>>}}

InitServer ==
    /\ root_node = init_trie.t.root_node
    /\ db \in ServerStores
    /\ dirty = init_trie.t.dirty
    /\ last = [op |-> "commit", ok |-> TRUE]
    /\ roots = <<[root |-> init_trie.ret.val[1], values |-> Lookups(init_trie.t)]>>
    /\ kv = NoKv
    /\ calls = [insert |-> Len(ServerData), commit |-> 1, revert |-> 0]
    /\ req_receiver = << >>
    /\ streams = [c \in Streams |-> [at |-> "closed"]]
    /\ main = TRUE
    /\ process = "running"
    /\ log = NoLog

trie == <<root_node, db, dirty, last, roots, kv, calls>>

\* the tasks that hold a sender of the channel
Senders == (IF main THEN {0} ELSE {}) \cup {c \in Streams : streams[c].at # "closed"}

\* main accepts a connection and spawns process_stream with a clone of req_sender
Accept(c) ==
    /\ main
    /\ streams[c].at = "closed"
    /\ streams' = [streams EXCEPT ![c] = [at |-> "idle"]]
    /\ UNCHANGED <<trie, req_receiver, main, process, log>>

\* main returns (accept failed): its req_sender is dropped
MainReturn ==
    /\ main
    /\ main' = FALSE
    /\ UNCHANGED <<trie, req_receiver, streams, process, log>>

\* process_stream reads a frame and sends the request with a oneshot sender
StreamSend(c, proof_request) ==
    /\ streams[c].at = "idle"
    /\ process = "running"
    /\ req_receiver' = Append(req_receiver, [stream |-> c, proof_request |-> proof_request])
    /\ streams' = [streams EXCEPT ![c] = [at |-> "waiting", sent |-> proof_request]]
    /\ UNCHANGED <<trie, main, process, log>>

\* process_stream sends the response to the client and reads on
StreamReply(c) ==
    /\ streams[c].at = "answered"
    /\ streams' = [streams EXCEPT ![c] = [at |-> "idle"]]
    /\ UNCHANGED <<trie, req_receiver, main, process, log>>

\* process_stream returns and drops its req_sender: the client closed the
\* connection, or the oneshot sender was dropped without an answer
StreamReturn(c) ==
    /\ streams[c].at \in {"idle", "cancelled"}
    /\ streams' = [streams EXCEPT ![c] = [at |-> "closed"]]
    /\ UNCHANGED <<trie, req_receiver, main, process, log>>

\* one turn of the loop of process_proof_request: the next request is taken
\* and answered, or an error is logged and its oneshot sender dropped
Took(head, turn) ==
    /\ Set(turn.t)
    /\ log' = [request |-> Some(head.proof_request), outcome |-> turn.outcome]
    /\ streams' = [streams EXCEPT ![head.stream] =
                      IF turn.response = None THEN [at |-> "cancelled"]
                      ELSE [at |-> "answered", sent |-> streams[head.stream].sent,
                            response |-> turn.response[1]]]
    /\ process' = IF turn.loop = "continue" THEN "running" ELSE "returned"

\* mutant: the loop takes the request queued last
Serve_lifo(order) ==
    /\ process = "running"
    /\ req_receiver # << >>
    /\ order \in ProofOrders(self, req_receiver[Len(req_receiver)].proof_request)
    /\ Took(req_receiver[Len(req_receiver)],
            process_proof_request(self, req_receiver[Len(req_receiver)].proof_request, order))
    /\ req_receiver' = SubSeq(req_receiver, 1, Len(req_receiver) - 1)
    /\ UNCHANGED <<last, roots, kv, calls, main>>

Serve(order) ==
    /\ process = "running"
    /\ req_receiver # << >>
    /\ order \in ProofOrders(self, Head(req_receiver).proof_request)
    /\ Took(Head(req_receiver),
            process_proof_request(self, Head(req_receiver).proof_request, order))
    /\ req_receiver' = Tail(req_receiver)
    /\ UNCHANGED <<last, roots, kv, calls, main>>

\* req_receiver.next() is None: the channel is empty and every sender is dropped
ProcessReturn ==
    /\ process = "running"
    /\ req_receiver = << >>
    /\ Senders = {}
    /\ process' = "returned"
    /\ UNCHANGED <<trie, req_receiver, streams, main, log>>

NextServer ==
    \/ \E c \in Streams : Accept(c)
    \/ MainReturn
    \/ \E c \in Streams, proof_request \in ClientRequests : StreamSend(c, proof_request)
    \/ \E c \in Streams : StreamReply(c)
    \/ \E c \in Streams : StreamReturn(c)
    \/ \E order \in UNION {Orders(S) : S \in SUBSET DOMAIN db} : Serve(order)
    \/ ProcessReturn

SpecServer == InitServer /\ [][NextServer]_vars

(***************************************************************************)
(* C23. Request conversion: the conversion of a ProofRequest to            *)
(* (HashValue, String) is Err(InvalidHashValue) when root_hash is not      *)
(* HashLen bytes long, whatever the key is; Err(InvalidKey) when root_hash *)
(* is HashLen bytes long and the key is not UTF-8; and otherwise Ok with   *)
(* the digest of those bytes and the String of the key bytes. The loop of  *)
(* the server logs the same for the request it took last.                  *)
(***************************************************************************)
C23_RequestConversion ==
    /\ \A v \in ProofRequests :
          LET r == ProofRequest_try_into(v)
          IN /\ Len(v.root_hash) # HashLen => r = Err("InvalidHashValue")
             /\ (Len(v.root_hash) = HashLen /\ v.key \in NotUtf8Keys) => r = Err("InvalidKey")
             /\ (Len(v.root_hash) = HashLen /\ v.key \in Utf8Keys) =>
                    /\ r.ok
                    /\ to_vec(r.val[1]) = v.root_hash
                    /\ r.val[2] = v.key
    /\ log.request # None =>
          LET v == log.request[1]
          IN /\ Len(v.root_hash) # HashLen => log.outcome = "InvalidHashValue"
             /\ (Len(v.root_hash) = HashLen /\ v.key \in NotUtf8Keys) =>
                    log.outcome = "InvalidKey"
             /\ (Len(v.root_hash) = HashLen /\ v.key \in Utf8Keys) =>
                    log.outcome \notin {"InvalidHashValue", "InvalidKey"}

\* the loop took a request with 31 bytes of root and a key that is not UTF-8
C23_Witness ==
    /\ log.request # None
    /\ Len(log.request[1].root_hash) = HashLen - 1
    /\ log.request[1].key \in NotUtf8Keys
    /\ log.outcome = "InvalidHashValue"
    /\ \E c \in Streams : streams[c].at = "cancelled"

(***************************************************************************)
(* C24. Wire round trip: a (root, key) pair converted to a ProofRequest    *)
(* and back is the same pair; an (exists, proof store) pair converted to a *)
(* ProofResponse, in any order of the entries, and back has the same flag  *)
(* and a store with the same entries - for the proof of every root and key *)
(* and for the whole store; and the response a stream holds converts back  *)
(* to what get_proof returns for a request of a client.                    *)
(***************************************************************************)
\* the proof stores to send: the proofs get_proof returns, and the store itself
ProofStores ==
    {db} \cup
    {Trie_get_proof_clean(self, p[1], p[2]).val.proof_db :
        p \in {q \in RootHashes \X Utf8Keys : Trie_get_proof_clean(self, q[1], q[2]).ok}}

C24_WireRoundTrip ==
    /\ \A h \in RootHashes, k \in Utf8Keys :
          ProofRequest_try_into(ProofRequest_from(<<h, k>>)) = Ok(<<h, k>>)
    /\ \A exists \in BOOLEAN, proof_db \in ProofStores :
          \A order \in Orders(DOMAIN proof_db) :
              LET w == ProofResponse_try_from(<<exists, proof_db>>, order)
              IN w.ok /\ ProofResponse_try_into(w.val) = Ok(<<exists, proof_db>>)
    /\ \A c \in Streams :
          streams[c].at = "answered" =>
              \E v \in ClientRequests :
                  LET asked == ProofRequest_try_into(v)
                      got == Trie_get_proof(self, asked.val[1], asked.val[2], NoFault).ret
                  IN /\ asked.ok
                     /\ got.ok
                     /\ ProofResponse_try_into(streams[c].response) =
                            Ok(<<got.val.exists, got.val.proof_db>>)

\* a stream holds a response that says the key exists, with the three nodes
\* of its path in an order that does not start with the root
C24_Witness ==
    \E c \in Streams :
        /\ streams[c].at = "answered"
        /\ streams[c].response.exists
        /\ streams[c].response.proof_db[1] = 3
        /\ streams[c].response.proof_db[2] # roots[1].root
        /\ ProofResponse_try_into(streams[c].response).val[2] =
               Trie_get_proof_clean(self, roots[1].root, <<0, 0>>).val.proof_db

(***************************************************************************)
(* C30. The loop of process_proof_request outlives failed requests: every  *)
(* step that takes a request off the channel, whether the request is       *)
(* answered or an error is logged, leaves the loop running with the rest   *)
(* of the queue to serve; the loop ends only in a step taken with the      *)
(* channel empty and every sender dropped.                                 *)
(***************************************************************************)
C30_LoopSurvivesErrors ==
    [][/\ (process = "running" /\ process' # "running") =>
              (req_receiver = << >> /\ Senders = {})
       /\ req_receiver' # req_receiver /\ Len(req_receiver') < Len(req_receiver) =>
              /\ process' = "running"
              /\ req_receiver' = Tail(req_receiver)
              /\ log'.outcome # "sent" => streams'[Head(req_receiver).stream].at = "cancelled"]_vars

\* over a store that lost a node: get_proof failed for the request of one
\* stream, and the loop went on to answer the request of the other
C30_Witness ==
    /\ process = "running"
    /\ log.outcome = "sent"
    /\ \E c1, c2 \in Streams :
          /\ streams[c1].at = "cancelled"
          /\ streams[c2].at = "answered"
    /\ \E k \in Utf8Keys :
          Trie_get_proof(self, roots[1].root, k, NoFault).ret = Err("Database")

(***************************************************************************)
(* C33. Commit granularity does not affect the root: in every state and    *)
(* for every key and value whose insert succeeds, insert and commit return *)
(* the root that commit, insert and commit return, store writes not        *)
(* failing. By induction over the inserts, a commit between any two        *)
(* inserts of a sequence leaves the root of the final commit as it is.     *)
(***************************************************************************)
C33_CommitGranularity ==
    \A k \in Keys, v \in Values :
        LET direct == Trie_insert(self, k, v)
            between == Trie_commit(self, NoFault)
            after == Trie_insert(between.t, k, v)
        IN (direct.ret.ok /\ between.ret.ok) =>
               /\ after.ret.ok
               /\ Trie_commit(after.t, NoFault).ret = Trie_commit(direct.t, NoFault).ret

\* a dirty trie over a committed one, with nodes in memory and digest links:
\* the commit between would store them, and an insert goes through a digest
C33_Witness ==
    /\ dirty
    /\ Len(roots) >= 1
    /\ root_node.link = "TrieNode"
    /\ \E c \in Children(root_node.node) : c.link = "HashValue"
    /\ \E k \in Keys, v \in Values :
          LET between == Trie_commit(self, NoFault)
              after == Trie_insert(between.t, k, v)
          IN /\ DOMAIN between.t.db # DOMAIN db
             /\ after.ret.ok
             /\ Trie_commit(after.t, NoFault).ret.val[1] \notin DOMAIN between.t.db

(***************************************************************************)
(* C34. Commit does not change what lookups return: in every state, when   *)
(* commit returns Ok, get_value returns for every key after the commit     *)
(* what it returned before it.                                             *)
(***************************************************************************)
C34_CommitKeepsLookups ==
    \A fuel \in Fuels :
        LET c == Trie_commit(self, fuel)
        IN c.ret.ok => Lookups(c.t) = Lookups(self)

\* a commit of nodes in memory over stored ones just succeeded, and lookups
\* through the new digests find values
C34_Witness ==
    /\ last.op = "commit"
    /\ last.ok
    /\ Len(roots) = 2
    /\ roots[2].root # roots[1].root
    /\ \E k \in Keys : IsSome(Trie_get_value(self, k)) /\ roots[1].values[k] = Ok(None)

(***************************************************************************)
(* C35. Revert discards uncommitted inserts: right after a commit that     *)
(* returned the root r1, for every run of up to MaxReverts + 1 inserts     *)
(* with no commit, revert(r1) leaves a trie that is not dirty, whose       *)
(* get_value returns for every key what it returned at r1, over the store  *)
(* the commit left.                                                        *)
(***************************************************************************)
C35_RevertDiscards ==
    (last.op = "commit" /\ last.ok /\ root_node.link = "HashValue") =>
        \A t \in Inserted(self, MaxReverts + 1) :
            LET r == Trie_revert(t, root_node.hash)
            IN /\ r.ret.ok
               /\ ~r.t.dirty
               /\ r.t.db = db
               /\ Lookups(r.t) = Lookups(self)

\* a commit, an insert that changed what a key returns, and the revert to
\* the root of the commit
C35_Witness ==
    /\ last.op = "revert"
    /\ Len(roots) >= 1
    /\ last.root_hash = roots[Len(roots)].root
    /\ calls.insert >= 2
    /\ DOMAIN db = ReachLink(HashLink(roots[Len(roots)].root), db)
    /\ \E k \in Keys, v \in Values :
          Lookups(Trie_insert(self, k, v).t) # Lookups(self)

(***************************************************************************)
(* C36. A proof gives no wrong answer for another key: for every committed *)
(* root r the store holds and keys k, k2, verify_proof of k2 over the proof store that     *)
(* get_proof(r, k) returns is what get_value(k2) returns at r, or the      *)
(* error of a node the proof store does not hold.                          *)
(***************************************************************************)
C36_ProofOtherKey ==
    \A r \in Roots \cap DOMAIN db, k \in Keys :
        LET p == Trie_get_proof(self, r, k, NoFault)
        IN p.ret.ok =>
               \A k2 \in Keys :
                   LET v == verify_proof(r, p.ret.val.proof_db, k2)
                   IN \/ v = Trie_get_value(At(r, p.t.db), k2)
                      \/ v = Err("Database")

\* the proof of one key answers another key that is present with an error,
\* and a third with its value
C36_Witness ==
    \E r \in Roots, k, k2, k3 \in Keys :
        LET P == Trie_get_proof_clean(self, r, k).val.proof_db
        IN /\ ~dirty
           /\ k2 # k /\ k3 # k
           /\ IsSome(Trie_get_value(At(r, db), k2))
           /\ verify_proof(r, P, k2) = Err("Database")
           /\ IsSome(verify_proof(r, P, k3))

(***************************************************************************)
(* C37. Insertion order does not affect the root: after inserts of         *)
(* distinct keys into a new trie and one commit, the root is the root that *)
(* every order of inserting the same pairs into a new trie and one commit  *)
(* gives.                                                                  *)
(***************************************************************************)
\* the trie after the inserts of the keys of order, from the i-th on, with
\* the values of map
RECURSIVE InsertAll(_, _, _, _)
InsertAll(t, map, order, i) ==
    IF i > Len(order) THEN t
    ELSE InsertAll(Trie_insert(t, order[i], map[order[i]][1]).t, map, order, i + 1)

C37_OrderIndependent ==
    LET inserted == {k \in Keys : kv.map[k] # None}
    IN (kv.pure /\ kv.committed /\ calls.insert = Cardinality(inserted)) =>
           \A order \in Orders(inserted) :
               Trie_commit(InsertAll(Trie_new, kv.map, order, 1), NoFault).ret =
                   (IF roots = << >> THEN Ok(None) ELSE Ok(Some(roots[1].root)))

(***************************************************************************)
(* C38. A failed commit keeps the uncommitted data: in every state, when   *)
(* commit returns an error for a store write that failed, the root link    *)
(* and the dirty flag are as before the call, get_value returns for every  *)
(* key what it returned before, and a commit tried again with the store    *)
(* accepting writes returns a root under which the values are found.       *)
(***************************************************************************)
C38_FailedCommitKeeps ==
    \A fuel \in Fuels :
        LET c == Trie_commit(self, fuel)
        IN ~c.ret.ok =>
               /\ c.t.root_node = root_node
               /\ c.t.dirty = dirty
               /\ Lookups(c.t) = Lookups(self)
               /\ Lookups(Trie_commit(c.t, NoFault).t) = Lookups(self)

(***************************************************************************)
(* C39. Inserting a pair the trie holds leaves the root as it is: on a     *)
(* committed trie with root r where get_value(k) is Some(v), insert(k, v)  *)
(* and commit return r and the store has the entries it had.               *)
(***************************************************************************)
C39_ReinsertNoOp ==
    (~dirty /\ root_node.link = "HashValue" /\ root_node.hash \in DOMAIN db) =>
        \A k \in Keys, v \in Values :
            Trie_get_value(self, k) = Ok(Some(v)) =>
                LET i == Trie_insert(self, k, v)
                    c == Trie_commit(i.t, NoFault)
                IN /\ i.ret.ok
                   /\ c.ret = Ok(Some(root_node.hash))
                   /\ c.t.db = db

\* a committed trie of several stored nodes whose keys end in a leaf and in
\* the value of a branch
C39_Witness ==
    /\ ~dirty
    /\ last.op = "commit"
    /\ last.ok
    /\ root_node.link = "HashValue"
    /\ \E k1, k2 \in Keys :
          /\ IsSome(Trie_get_value(self, k1))
          /\ IsSome(Trie_get_value(self, k2))
          /\ Len(k1) < Len(k2)
    /\ \E h \in DOMAIN db :
          LET n == Deserialize(db[h]).val
          IN n.tag = "Branch" /\ n.value # None

(***************************************************************************)
(* C31. One task serves the trie, in channel order, each stream its own    *)
(* answer: in the TCP server the trie changes only in a step of the loop   *)
(* of process_proof_request; that step takes the request at the head of    *)
(* the channel and answers or cancels the stream that sent it and no       *)
(* other; a stream has at most one request in the channel, the one it      *)
(* waits for; and the response a stream holds is the one get_proof gives   *)
(* for the request that stream sent, which it forwards before it sends     *)
(* again.                                                                  *)
(***************************************************************************)
\* the streams whose requests are queued, in channel order
Queued == [i \in 1..Len(req_receiver) |-> req_receiver[i].stream]

\* each stream holds the answer to the request it sent, and the channel
\* holds the request of every waiting stream once
OwnAnswers ==
    /\ \A c \in Streams :
          streams[c].at = "answered" =>
              LET asked == ProofRequest_try_into(streams[c].sent)
                  got == Trie_get_proof(self, asked.val[1], asked.val[2], NoFault).ret
              IN /\ asked.ok
                 /\ got.ok
                 /\ ProofResponse_try_into(streams[c].response) =
                        Ok(<<got.val.exists, got.val.proof_db>>)
    /\ \A c \in Streams :
          Cardinality({i \in 1..Len(req_receiver) : Queued[i] = c}) =
              (IF streams[c].at = "waiting" THEN 1 ELSE 0)
    /\ \A i \in 1..Len(req_receiver) :
          req_receiver[i].proof_request = streams[Queued[i]].sent

C31_OneAtATimeInOrder ==
    [][/\ OwnAnswers
       /\ <<root_node, db, dirty>>' # <<root_node, db, dirty>> =>
              (process = "running" /\ req_receiver' = Tail(req_receiver))
       /\ Len(req_receiver') < Len(req_receiver) =>
              /\ req_receiver' = Tail(req_receiver)
              /\ streams'[Queued[1]].at \in {"answered", "cancelled"}
              /\ \A c \in Streams \ {Queued[1]} : streams'[c] = streams[c]
       /\ \A c \in Streams :
              (streams[c].at = "answered" /\ streams'[c] # streams[c]) =>
                  (streams'[c].at = "idle" /\ req_receiver' = req_receiver)
       /\ Len(req_receiver') > Len(req_receiver) =>
              /\ SubSeq(req_receiver', 1, Len(req_receiver)) = req_receiver
              /\ streams[req_receiver'[Len(req_receiver')].stream].at = "idle"]_vars

\* two streams sent different requests; the loop answered the first and the
\* second is still in the channel
C31_Witness ==
    \E c1, c2 \in Streams :
        /\ streams[c1].at = "answered"
        /\ streams[c2].at = "waiting"
        /\ streams[c1].sent # streams[c2].sent
        /\ streams[c1].response.exists
        /\ req_receiver # << >>
        /\ Queued[1] = c2

(***************************************************************************)
(* The libp2p node (src/examples/libp2p_node/main.rs). main spawns the     *)
(* same process_proof_request and keeps the only req_sender; its event     *)
(* loop handles an inbound request itself: it sends the request with a     *)
(* oneshot sender, waits for the answer and sends the response to the      *)
(* peer. Stream 1 stands for that arm of the event loop: idle while main   *)
(* is in select!, waiting while main awaits the oneshot receiver.          *)
(***************************************************************************)
InitNode ==
    /\ root_node = init_trie.t.root_node
    /\ db \in ServerStores
    /\ dirty = init_trie.t.dirty
    /\ last = [op |-> "commit", ok |-> TRUE]
    /\ roots = <<[root |-> init_trie.ret.val[1], values |-> Lookups(init_trie.t)]>>
    /\ kv = NoKv
    /\ calls = [insert |-> Len(ServerData), commit |-> 1, revert |-> 0]
    /\ req_receiver = << >>
    /\ streams = [c \in Streams |-> [at |-> IF c = 1 THEN "idle" ELSE "closed"]]
    /\ main = TRUE
    /\ process = "running"
    /\ log = NoLog

\* a swarm event other than an inbound request (a new listen address, a peer
\* found, a connection made)
SwarmEvent ==
    /\ main
    /\ streams[1].at = "idle"
    /\ UNCHANGED vars

\* Message::Request: the request goes to the task with a oneshot sender, and
\* main awaits the receiver
MessageRequest(proof_request) ==
    /\ main
    /\ streams[1].at = "idle"
    /\ req_receiver' = Append(req_receiver, [stream |-> 1, proof_request |-> proof_request])
    /\ streams' = [streams EXCEPT ![1] = [at |-> "waiting", sent |-> proof_request]]
    /\ UNCHANGED <<trie, main, process, log>>

\* the receiver gives the response: main sends it to the peer and goes on
SendResponse ==
    /\ main
    /\ streams[1].at = "answered"
    /\ streams' = [streams EXCEPT ![1] = [at |-> "idle"]]
    /\ UNCHANGED <<trie, req_receiver, main, process, log>>

\* the oneshot sender was dropped: res_receiver.await? returns the error
\* from main, and the req_sender of main is dropped with it
Canceled ==
    /\ main
    /\ streams[1].at = "cancelled"
    /\ main' = FALSE
    /\ streams' = [streams EXCEPT ![1] = [at |-> "closed"]]
    /\ UNCHANGED <<trie, req_receiver, process, log>>

NextNode ==
    \/ SwarmEvent
    \/ \E proof_request \in ClientRequests : MessageRequest(proof_request)
    \/ \E order \in UNION {Orders(S) : S \in SUBSET DOMAIN db} : Serve(order)
    \/ SendResponse
    \/ Canceled
    \/ ProcessReturn

SpecNode == InitNode /\ [][NextNode]_vars

(***************************************************************************)
(* C32. The libp2p node outlives a request that failed in the task: when   *)
(* the task logged an error for the request main waits for, the event loop *)
(* of main goes on.                                                        *)
(***************************************************************************)
C32_NodeSurvivesFailure ==
    [][(main /\ streams[1].at = "cancelled") => main']_vars
====
